---- MODULE Spec2Model ----
(***************************************************************************)
(* A model of @testdeck/core (packages/@testdeck/core/index.ts): the       *)
(* decorators that annotate classes and methods, the registration callback *)
(* built by ClassTestUI.suiteCallbackFromClass, and a test runner that     *)
(* drives the registered hooks and tests.                                  *)
(*                                                                         *)
(* A state holds the source text being loaded (prog), how far the loading  *)
(* got (pcDef), the metadata the decorators have attached so far (funcs,   *)
(* ctors, binding), the registered dependency injection systems, the       *)
(* runner.suite calls issued by the suite decorators (suites) and the      *)
(* runner's invocations of registration callbacks (invs), each with the    *)
(* instance variable of its closure and the runner's progress through it.  *)
(***************************************************************************)
EXTENDS Integers, Sequences, FiniteSets, TLC

VARIABLES prog, pcDef, funcs, ctors, binding, dependencyInjectionSystems,
          suites, invs, diCalls, returned, runner

vars == <<prog, pcDef, funcs, ctors, binding, dependencyInjectionSystems,
          suites, invs, diCalls, returned, runner>>

(***************************************************************************)
(* Bounds of the exploration.                                              *)
(***************************************************************************)
MaxMethods == 2

MaxDepth == 3

MaxParams == 2

MaxInvocations == 1

MaxRegistrations == 3

MaxConcurrent == 2

MaxArity == 2

(***************************************************************************)
(* Values of the language.                                                 *)
(***************************************************************************)
Undefined == "undefined"

\* JavaScript truthiness of a string-or-undefined value.
Truthy(v) == v # Undefined /\ v # ""

Reverse(s) == [i \in 1..Len(s) |-> s[Len(s) + 1 - i]]

RECURSIVE Flatten(_)
Flatten(ss) == IF ss = <<>> THEN <<>> ELSE Head(ss) \o Flatten(Tail(ss))

\* obj[k] = v on a property map.
Put(obj, k, v) == (k :> v) @@ obj

(***************************************************************************)
(* The metadata keys.                                                      *)
(***************************************************************************)
MakeSymbol(key) == "__testdeck_" \o key

suiteSymbol == MakeSymbol("suite")

nameSymbol == MakeSymbol("name")

parametersSymbol == MakeSymbol("parametersSymbol")

nameForParametersSymbol == MakeSymbol("nameForParameters")

slowSymbol == MakeSymbol("slow")

timeoutSymbol == MakeSymbol("timeout")

retriesSymbol == MakeSymbol("retries")

executionSymbol == MakeSymbol("execution")

isDecoratorSymbol == MakeSymbol("isDecorator")

\* type Execution = undefined | "pending" | "only" | "skip"
Execution == {Undefined, "pending", "only", "skip"}

(***************************************************************************)
(* Source text.  A decorator as written above a class or a method:         *)
(*   d      which decorator: "suite", "test", "params", "naming", "slow",  *)
(*          "timeout", "retries", "modifier"                               *)
(*   form   "bare" (@test) or "call" (@test(...))                          *)
(*   exec   the pre-tagged execution of suite/test/params(.skip/.only/     *)
(*          .pending), or which modifier it is                             *)
(*   name   the name argument, when given                                  *)
(*   val    the params value, the naming function, or the condition of a   *)
(*          modifier ("true", "false")                                     *)
(*   num    the number given to slow/timeout/retries                       *)
(*   traits the secondary decorators given to suite(...) or test(...)      *)
(***************************************************************************)
Deco(d, form, exec, name, val, num, traits) ==
  [d |-> d, form |-> form, exec |-> exec, name |-> name, val |-> val,
   num |-> num, traits |-> traits]

SuiteBare(exec) == Deco("suite", "bare", exec, Undefined, Undefined, 0, <<>>)

SuiteCall(exec, name, traits) == Deco("suite", "call", exec, name, Undefined, 0, traits)

TestBare(exec) == Deco("test", "bare", exec, Undefined, Undefined, 0, <<>>)

TestCall(exec, name, traits) == Deco("test", "call", exec, name, Undefined, 0, traits)

ParamsCall(exec, val, name) == Deco("params", "call", exec, name, val, 0, <<>>)

NamingCall(fn) == Deco("naming", "call", Undefined, Undefined, fn, 0, <<>>)

OptionCall(key, n) == Deco(key, "call", Undefined, Undefined, Undefined, n, <<>>)

ModifierBare(exec) == Deco("modifier", "bare", exec, Undefined, Undefined, 0, <<>>)

ModifierCall(exec, cond) == Deco("modifier", "call", exec, Undefined, cond, 0, <<>>)

\* A method of a class body: its property key, whether it is static, its
\* declared parameter count (Function.length) and its decorators, top first.
Member(key, static, length, decos) ==
  [key |-> key, static |-> static, length |-> length, decos |-> decos]

\* A class declaration; parent is the name after `extends`, or "Object".
ClassDecl(name, parent, members, decos) ==
  [name |-> name, parent |-> parent, members |-> members, decos |-> decos]

Range(s) == {s[i] : i \in 1..Len(s)}

\* Sequences over S of length 0..n without repetition.
RECURSIVE DistinctSeqs(_, _)
DistinctSeqs(S, n) ==
  IF n = 0 THEN {<<>>}
  ELSE LET shorter == DistinctSeqs(S, n - 1)
           longest == {t \in shorter : Len(t) = n - 1}
       IN shorter \cup UNION {{Append(t, x) : x \in S \ Range(t)} : t \in longest}

(***************************************************************************)
(* The programs explored.  Each is a source text: class declarations in    *)
(* the order they are written.                                             *)
(***************************************************************************)
Plain(key, static) == Member(key, static, 0, <<>>)

Decorated(key, static, decos) == Member(key, static, 0, decos)

TwoTests == <<Decorated("m1", FALSE, <<TestBare(Undefined)>>),
              Decorated("m2", FALSE, <<TestBare(Undefined)>>)>>

StaticBeforeChoices ==
  {<<>>, <<Plain("before", TRUE)>>,
   <<Decorated("before", TRUE, <<OptionCall("timeout", 1000)>>)>>}

StaticAfterChoices ==
  {<<>>, <<Plain("after", TRUE)>>,
   <<Decorated("after", TRUE, <<OptionCall("timeout", 2000)>>)>>}

InstanceBeforeChoices ==
  {<<>>, <<Plain("before", FALSE)>>,
   <<Decorated("before", FALSE, <<OptionCall("retries", 3)>>)>>,
   <<Decorated("before", FALSE, <<ModifierBare("skip")>>)>>,
   <<Decorated("before", FALSE, <<OptionCall("slow", 50)>>)>>}

InstanceAfterChoices ==
  {<<>>, <<Plain("after", FALSE)>>,
   <<Decorated("after", FALSE, <<OptionCall("timeout", 2000)>>)>>}

\* One suite class with two tests and every combination of lifecycle hooks.
HookPrograms ==
  {<<ClassDecl("A", "Object", ib \o ia \o sb \o sa \o TwoTests,
               <<SuiteBare(Undefined)>>)>> :
     ib \in InstanceBeforeChoices, ia \in InstanceAfterChoices,
     sb \in StaticBeforeChoices, sa \in StaticAfterChoices}

\* Property keys a method may be written with: identifiers, a canonical
\* array index, the name of a member of Object.prototype, the empty string.
KeyNames == {"m1", "m2", "1", "toString", ""}

\* One suite class without a base class: up to MaxMethods methods, each
\* decorated with @test or not.
KeyPrograms ==
  {<<ClassDecl("A", "Object",
               [i \in 1..Len(ks) |->
                  Decorated(ks[i], FALSE,
                            IF ks[i] \in D THEN <<TestBare(Undefined)>> ELSE <<>>)],
               <<SuiteBare(Undefined)>>)>> :
     ks \in DistinctSeqs(KeyNames, MaxMethods), D \in SUBSET KeyNames}

ClassName(i) == "C" \o ToString(i)

SuiteChoices == {<<>>, <<SuiteBare(Undefined)>>, <<SuiteCall(Undefined, "named", <<>>)>>}

MethodChoices == {<<>>, <<Plain("m", FALSE)>>, <<Decorated("m", FALSE, <<TestBare(Undefined)>>)>>}

\* A chain of up to MaxDepth classes, each extending the one before; every
\* class may be a suite; the first, the last and the last but one may
\* declare the method m; the last is a suite.
InheritPrograms ==
  UNION {{[i \in 1..n |->
             ClassDecl(ClassName(i), IF i = 1 THEN "Object" ELSE ClassName(i - 1),
                       ms[i], ss[i])] :
            ms \in {f \in [1..n -> MethodChoices] :
                      \A i \in 2..(n - 2) : f[i] = <<>>},
            ss \in {f \in [1..n -> SuiteChoices] : f[n] # <<>>}} :
         n \in 1..MaxDepth}

ParamName(i) == "n" \o ToString(i)

ParamValue(i) == "p" \o ToString(i)

\* The i-th @params(...) line from the top: its value is p<i>, it may carry
\* a name, and the first may be the .skip variant.
ParamsChoices(n) ==
  {[i \in 1..n |-> ParamsCall(es[i], ParamValue(i), ns[i])] :
     es \in {f \in [1..n -> {Undefined, "skip"}] : \A i \in 2..n : f[i] = Undefined},
     ns \in {f \in [1..n -> {Undefined} \cup {ParamName(i) : i \in 1..n}] :
               \A i \in 1..n : f[i] \in {Undefined, ParamName(i)}}}

NamingChoices == {<<>>, <<NamingCall("byValue")>>}

NamedTest == <<TestCall(Undefined, "custom", <<>>)>>

\* One suite class with one parameterised method: 1..MaxParams @params
\* lines, with or without @params.naming, with or without @test("custom")
\* above or below them.
ParamPrograms ==
  UNION {{<<ClassDecl("A", "Object",
                      <<Member("m1", FALSE, 1, tb[1] \o ps \o nm \o tb[2])>>,
                      <<SuiteBare(Undefined)>>)>> :
            ps \in ParamsChoices(n), nm \in NamingChoices,
            tb \in {<<<<>>, <<>>>>, <<NamedTest, <<>>>>, <<<<>>, NamedTest>>}} :
         n \in 1..MaxParams}

ClassDecoratorChoices ==
  {<<SuiteBare(Undefined), OptionCall("timeout", 500)>>,
   <<OptionCall("timeout", 500), SuiteBare(Undefined)>>,
   <<SuiteBare("skip"), OptionCall("slow", 50), ModifierBare("only")>>,
   <<SuiteCall(Undefined, "named", <<OptionCall("slow", 50), OptionCall("timeout", 500)>>)>>,
   <<SuiteCall("only", Undefined, <<OptionCall("retries", 3)>>)>>}

\* One suite class with one test, decorated as a class in several ways.
SuitePrograms ==
  {<<ClassDecl("A", "Object", <<Decorated("m1", FALSE, <<TestBare(Undefined)>>)>>, ds)>> :
     ds \in ClassDecoratorChoices}

OptionChoices ==
  {OptionCall("timeout", 0), OptionCall("timeout", 1000), OptionCall("slow", 50),
   OptionCall("retries", 3)}

\* One suite class with one test method carrying slow, timeout or retries,
\* written above or below @test, given to test(...) as a trait, or written
\* above or below @params.
OptionPrograms ==
  {<<ClassDecl("A", "Object", <<Member("m1", FALSE, 0, ds)>>, <<SuiteBare(Undefined)>>)>> :
     ds \in UNION {{<<TestBare(Undefined), o>>, <<o, TestBare(Undefined)>>,
                     <<TestCall(Undefined, Undefined, <<o>>)>>,
                     <<o, ParamsCall(Undefined, ParamValue(1), Undefined)>>,
                     <<ParamsCall(Undefined, ParamValue(1), Undefined), o>>} :
                      o \in OptionChoices}}

\* @X, @X(true), @X(false) and @X() for X in pending, only, skip.
ModifierChoices ==
  UNION {{ModifierBare(x), ModifierCall(x, "true"), ModifierCall(x, "false"),
          ModifierCall(x, Undefined)} : x \in {"pending", "only", "skip"}}

\* One suite class with one test: a modifier written above @test or
\* @test.skip on the method, or below @suite on the class, alone or above
\* @skip.
ModifierPrograms ==
  {<<ClassDecl("A", "Object", <<Member("m1", FALSE, 0, <<x, t>>)>>,
               <<SuiteBare(Undefined)>>)>> :
     x \in ModifierChoices, t \in {TestBare(Undefined), TestBare("skip")}}
    \cup
  {<<ClassDecl("A", "Object", <<Member("m1", FALSE, 0, <<TestBare(Undefined)>>)>>,
               <<SuiteBare(Undefined), x>> \o below)>> :
     x \in ModifierChoices, below \in {<<>>, <<ModifierBare("skip")>>}}

\* Programs run with registered dependency-injection systems: a suite class
\* with every kind of hook, a parameterised test and a class option; two
\* suite classes with one test each.
DIPrograms ==
  {<<ClassDecl("A", "Object",
               <<Plain("before", FALSE), Plain("after", FALSE), Plain("before", TRUE),
                 Plain("after", TRUE),
                 Decorated("m1", FALSE, <<ParamsCall(Undefined, ParamValue(1), Undefined)>>)>>,
               <<SuiteBare(Undefined), OptionCall("timeout", 1000)>>)>>,
   <<ClassDecl("A", "Object", <<Decorated("m1", FALSE, <<TestBare(Undefined)>>)>>,
               <<SuiteBare(Undefined)>>),
     ClassDecl("B", "Object",
               <<Decorated("m1", FALSE, <<TestCall(Undefined, "custom", <<>>)>>)>>,
               <<SuiteCall(Undefined, "named", <<>>)>>)>>}

\* The call shapes of suite: @suite, @suite(), @suite(name),
\* @suite(trait...), @suite(name, trait...) and their pre-tagged variants,
\* with traits among slow, timeout, retries, pending, only, skip.
SuiteShapes ==
  {SuiteBare(Undefined), SuiteBare("skip"),
   SuiteCall(Undefined, Undefined, <<>>),
   SuiteCall(Undefined, "named", <<>>),
   SuiteCall(Undefined, Undefined, <<OptionCall("timeout", 500)>>),
   SuiteCall(Undefined, Undefined, <<ModifierBare("only")>>),
   SuiteCall(Undefined, Undefined, <<ModifierCall("pending", "true")>>),
   SuiteCall("skip", Undefined, <<ModifierBare("only")>>),
   SuiteCall("skip", "named", <<ModifierBare("only")>>),
   SuiteCall(Undefined, Undefined, <<OptionCall("slow", 50), ModifierBare("skip")>>),
   SuiteCall("only", "named", <<OptionCall("retries", 3), ModifierBare("pending")>>)}

\* The call shapes of test: @test, @test(name), @test(trait...),
\* @test(name, trait...) and their pre-tagged variants.
TestShapes ==
  {TestBare(Undefined), TestBare("only"),
   TestCall(Undefined, "custom", <<>>),
   TestCall(Undefined, Undefined, <<ModifierBare("pending")>>),
   TestCall("skip", Undefined, <<ModifierBare("only")>>),
   TestCall("skip", "custom", <<ModifierBare("only"), OptionCall("retries", 3)>>)}

\* One class with an instance method and a static method, each decorated
\* with test in one of its shapes or not at all, and the class decorated
\* with suite in one of its shapes.
ShapePrograms ==
  {<<ClassDecl("A", "Object",
               <<Member("m1", FALSE, 0, <<t>>)>> \o st, <<s>>)>> :
     t \in TestShapes, s \in SuiteShapes,
     st \in {<<>>, <<Member("s1", TRUE, 0, <<TestBare(Undefined)>>)>>}}

\* A hook that is absent or declared with 0..MaxArity - 1 parameters.
HookArities(key, static) ==
  {<<>>} \cup {<<Member(key, static, n, <<>>)>> : n \in 0..(MaxArity - 1)}

\* One suite class with a test method declared with 0..MaxArity parameters,
\* parameterised or not, and instance and static before hooks declared with
\* or without a parameter.
ArityPrograms ==
  {<<ClassDecl("A", "Object", b \o sb \o <<Member("m1", FALSE, n, <<t>>)>>,
               <<SuiteBare(Undefined)>>)>> :
     b \in HookArities("before", FALSE), sb \in HookArities("before", TRUE),
     n \in 0..MaxArity,
     t \in {TestBare(Undefined), ParamsCall(Undefined, ParamValue(1), Undefined)}}

\* A hook that is absent or present.
HookOrNone(key, static) == {<<>>, <<Plain(key, static)>>}

\* A suite class C2 with a test and any combination of hooks, extending a
\* class C1 that is a suite as well (decorated with suite("named")) and may
\* declare the instance before hook itself.
AncestorPrograms ==
  {<<ClassDecl("C1", "Object", pb \o <<Decorated("m1", FALSE, <<TestBare(Undefined)>>)>>,
               <<SuiteCall(Undefined, "named", <<>>)>>),
     ClassDecl("C2", "C1",
               b \o a \o sb \o sa \o <<Decorated("m2", FALSE, <<TestBare(Undefined)>>)>>,
               <<SuiteBare(Undefined)>>)>> :
     pb \in HookOrNone("before", FALSE), b \in HookOrNone("before", FALSE),
     a \in HookOrNone("after", FALSE), sb \in HookOrNone("before", TRUE),
     sa \in HookOrNone("after", TRUE)}

Programs ==
  AncestorPrograms \cup HookPrograms \cup KeyPrograms \cup InheritPrograms \cup ParamPrograms
    \cup SuitePrograms \cup OptionPrograms \cup ModifierPrograms \cup ShapePrograms
    \cup ArityPrograms

(***************************************************************************)
(* Loading a program.  The class body is evaluated first (DefineClass),    *)
(* then the decorators of each member are applied bottom-up, instance      *)
(* members before static ones, then the decorators of the class bottom-up. *)
(***************************************************************************)
NoDeco == Deco("none", "bare", Undefined, Undefined, Undefined, 0, <<>>)

MemberOrder(decl) ==
  LET idx == [i \in 1..Len(decl.members) |-> i]
  IN SelectSeq(idx, LAMBDA i : ~decl.members[i].static)
       \o SelectSeq(idx, LAMBDA i : decl.members[i].static)

\* The decorator expressions of a declaration are evaluated top-down, then
\* their values are applied bottom-up.  The expressions that call suite or
\* test are steps of their own ("call"); evaluating the other expressions
\* changes nothing.
ClassScript(decl) ==
  LET order == MemberOrder(decl)
      step(op, member, d) == [op |-> op, cls |-> decl.name, member |-> member, deco |-> d]
      calls(decos, member) ==
        [j \in 1..Len(decos) |-> step("call", member, decos[j])]
      topDown(decos, member) ==
        SelectSeq(calls(decos, member),
                  LAMBDA c : c.deco.d \in {"suite", "test"} /\ c.deco.form = "call")
      bottomUp(decos, op, member) ==
        [j \in 1..Len(decos) |-> step(op, member, Reverse(decos)[j])]
  IN <<step("class", 0, NoDeco)>>
       \o Flatten([k \in 1..Len(order) |->
                     topDown(decl.members[order[k]].decos, order[k])
                       \o bottomUp(decl.members[order[k]].decos, "method", order[k])])
       \o topDown(decl.decos, 0) \o bottomUp(decl.decos, "ctor", 0)

Script(p) == Flatten([i \in 1..Len(p) |-> ClassScript(p[i])])

ClassNames(p) == {p[i].name : i \in 1..Len(p)}

DeclOf(p, c) == CHOOSE d \in Range(p) : d.name = c

\* The function a bare application of suite returns (index.ts line 269).
ReturnedDecorator(c) == "suite(" \o c \o ")"

\* The functions pending, only and skip, and the function `() => {}` that
\* X(false) returns.
ModifierFunctions == {"pending", "only", "skip", "noop"}

\* Function objects that suite may be applied to: the classes, the functions
\* returned to the class bindings by the suite decorator, and the modifier
\* functions.
Objects(p) ==
  ClassNames(p) \cup {ReturnedDecorator(c) : c \in ClassNames(p)} \cup ModifierFunctions

\* The function objects of the methods: <<class, static, key>>.
FuncIds(p) ==
  UNION {{<<p[i].name, p[i].members[j].static, p[i].members[j].key>> :
            j \in 1..Len(p[i].members)} : i \in 1..Len(p)}

NoFunc == <<Undefined, FALSE, Undefined>>

\* Function.length of a method.
LengthOf(f) ==
  LET decl == DeclOf(prog, f[1])
      m == CHOOSE m \in Range(decl.members) : m.static = f[2] /\ m.key = f[3]
  IN m.length

\* obj.__proto__ chain of a constructor, up to Function.prototype; the
\* prototype chain of its instances runs through the same classes.
RECURSIVE Chain(_)
Chain(o) == IF o = "Object" THEN <<>> ELSE <<o>> \o Chain(ctors[o].parent)

\* The properties visible on a constructor through its chain (k in obj).
RECURSIVE PropsAlong(_)
PropsAlong(chain) ==
  IF chain = <<>> THEN <<>>
  ELSE ctors[Head(chain)].props @@ PropsAlong(Tail(chain))

PropsOf(o) == PropsAlong(Chain(o))

HasMember(o, static, key) ==
  /\ o \in ClassNames(prog)
  /\ \E m \in Range(DeclOf(prog, o).members) : m.static = static /\ m.key = key

\* target[key] for a static method, prototype[key] for an instance method:
\* the first definition up the chain.
RECURSIVE FindMember(_, _, _)
FindMember(chain, static, key) ==
  IF chain = <<>> THEN NoFunc
  ELSE IF HasMember(Head(chain), static, key) THEN <<Head(chain), static, key>>
  ELSE FindMember(Tail(chain), static, key)

StaticMethod(target, key) == FindMember(Chain(target), TRUE, key)

PrototypeMethod(target, key) == FindMember(Chain(target), FALSE, key)

(***************************************************************************)
(* The method decorators.                                                  *)
(***************************************************************************)
\* The option stored under the key of slow, whichever option it is.
createExecutionOptionAsSlow(obj, key, value) == Put(obj, slowSymbol, value)

\* createExecutionOption(key)(value), applied to a method or to a class.
createExecutionOption(obj, key, value) == Put(obj, MakeSymbol(key), value)

\* The modifier that tags the target whatever the condition.
createExecutionModifierUnconditional(obj, d) == Put(obj, executionSymbol, d.exec)

\* The modifier that takes a missing condition for a true one.
createExecutionModifierUnlessFalse(obj, d) ==
  IF d.form = "bare" \/ d.val # "false"
  THEN Put(obj, executionSymbol, d.exec)
  ELSE obj

\* createExecutionModifier(execution): applied bare it tags the target;
\* called with a condition it returns itself (true) or a no-op.
createExecutionModifier(obj, d) ==
  IF d.form = "bare" \/ d.val = "true"
  THEN Put(obj, executionSymbol, d.exec)
  ELSE obj

\* A params decorator that tags the method instead of the parameter set.
makeParamsFunctionTaggingMethod(obj, propertyKey, d) ==
  LET named == IF Truthy(d.exec)
               THEN Put(Put(obj, nameSymbol, propertyKey), executionSymbol, d.exec)
               ELSE Put(obj, nameSymbol, propertyKey)
      parameters == IF parametersSymbol \in DOMAIN obj
                    THEN obj[parametersSymbol] ELSE <<>>
  IN Put(named, parametersSymbol,
         Append(parameters, [execution |-> Undefined, name |-> d.name, params |-> d.val]))

\* makeParamsFunction(execution)(params, name), applied to a method.
makeParamsFunction(obj, propertyKey, d) ==
  LET named == Put(obj, nameSymbol, propertyKey)
      parameters == IF parametersSymbol \in DOMAIN obj
                    THEN obj[parametersSymbol] ELSE <<>>
  IN Put(named, parametersSymbol,
         Append(parameters, [execution |-> d.exec, name |-> d.name, params |-> d.val]))

\* makeParamsNameFunction()(nameForParameters), applied to a method.
makeParamsNameFunction(obj, d) == Put(obj, nameForParametersSymbol, d.val)

\* A secondary decorator, as test(...) and suite(...) take them.
ApplyTrait(obj, propertyKey, d) ==
  CASE d.d \in {"slow", "timeout", "retries"} -> createExecutionOption(obj, d.d, d.num)
    [] d.d = "modifier" -> createExecutionModifier(obj, d)
    [] d.d = "params" -> makeParamsFunction(obj, propertyKey, d)
    [] d.d = "naming" -> makeParamsNameFunction(obj, d)
    [] OTHER -> obj

RECURSIVE ApplyTraits(_, _, _)
ApplyTraits(obj, propertyKey, decorators) ==
  IF decorators = <<>> THEN obj
  ELSE ApplyTraits(ApplyTrait(obj, propertyKey, Head(decorators)), propertyKey,
                   Tail(decorators))

WithExecution(obj, execution) ==
  IF Truthy(execution) THEN Put(obj, executionSymbol, execution) ELSE obj

\* makeTestFunction(execution): the three shapes of test.
testProperty(obj, propertyKey, execution) ==
  WithExecution(Put(obj, nameSymbol, propertyKey), execution)

testDecorator(obj, propertyKey, execution, decorators) ==
  WithExecution(ApplyTraits(Put(obj, nameSymbol, propertyKey), propertyKey, decorators),
                execution)

testDecoratorNamed(obj, propertyKey, execution, name, decorators) ==
  WithExecution(ApplyTraits(Put(obj, nameSymbol, name), propertyKey, decorators),
                execution)

\* An argument of a call of test or suite: its typeof, whether it carries
\* isDecoratorSymbol and, for a modifier function, which one it is.
Arg(type, marked, fn) == [type |-> type, marked |-> marked, fn |-> fn]

\* The value of a trait expression: slow(n), timeout(n) and retries(n) are
\* marked as decorators; pending, only, skip and X(true) are the modifier
\* function itself, X(false) and X() are `() => {}`; none of these is
\* marked.
TraitArgument(d) ==
  CASE d.d \in {"slow", "timeout", "retries"} -> Arg("function", TRUE, Undefined)
    [] d.d = "modifier" ->
         Arg("function", FALSE, IF d.form = "bare" \/ d.val = "true" THEN d.exec ELSE "noop")
    [] OTHER -> Arg("function", FALSE, Undefined)

\* The arguments of suite(...) or test(...) called as a factory: the name,
\* when there is one, then the traits.
FactoryArguments(d) ==
  (IF d.name # Undefined THEN <<Arg("string", FALSE, Undefined)>> ELSE <<>>)
    \o [i \in 1..Len(d.traits) |-> TraitArgument(d.traits[i])]

\* The arguments a member decorator is applied with: the prototype (the
\* constructor for a static member), the property key and the descriptor.
MemberArguments(static) ==
  <<Arg(IF static THEN "function" ELSE "object", FALSE, Undefined),
    Arg("string", FALSE, Undefined), Arg("object", FALSE, Undefined)>>

\* The dispatch without the test that the first argument is no function.
testOverloadByCount(args) ==
  IF Len(args) >= 2 /\ args[1].type # "string" THEN "testProperty"
  ELSE IF Len(args) >= 1 /\ args[1].type = "string" THEN "testDecoratorNamed"
  ELSE "testDecorator"

\* testOverload: which of the three shapes a call of test takes.
testOverload(args) ==
  IF Len(args) >= 2 /\ args[1].type # "string" /\ args[1].type # "function"
  THEN "testProperty"
  ELSE IF Len(args) >= 1 /\ args[1].type = "string" THEN "testDecoratorNamed"
  ELSE "testDecorator"

\* The decorator that test(...) returned, applied to a method.
ApplyTestDecorator(obj, propertyKey, d) ==
  IF testOverload(FactoryArguments(d)) = "testDecoratorNamed"
  THEN testDecoratorNamed(obj, propertyKey, d.exec, d.name, d.traits)
  ELSE testDecorator(obj, propertyKey, d.exec, d.traits)

\* test used without a call, @test: test itself is applied to the member.
\* With a static member its first argument is a function, so it takes the
\* testDecorator shape: it returns a decorator and annotates nothing.
ApplyTest(obj, propertyKey, d, static) ==
  IF testOverload(MemberArguments(static)) = "testProperty"
  THEN testProperty(obj, propertyKey, d.exec)
  ELSE obj

\* What the application of a member decorator returns: a function when
\* test itself, applied to a member, takes a factory shape; nothing
\* otherwise.
MethodDecoratorReturns(d, static) ==
  IF d.d = "test" /\ d.form = "bare" /\ testOverload(MemberArguments(static)) # "testProperty"
  THEN "function"
  ELSE Undefined

ApplyMethodDecorator(obj, propertyKey, d, static) ==
  IF d.d = "test"
  THEN IF d.form = "bare" THEN ApplyTest(obj, propertyKey, d, static)
       ELSE ApplyTestDecorator(obj, propertyKey, d)
  ELSE ApplyTrait(obj, propertyKey, d)

(***************************************************************************)
(* The calls made on the runner.  A callback is described by what it does  *)
(* when called: which kind of closure it is, the method it defers to,      *)
(* whether it takes the completion callback, the arguments it appends and  *)
(* the Function.name it shows.                                             *)
(***************************************************************************)
Callback(kind, method, async, callArgs, fname) ==
  [kind |-> kind, method |-> method, async |-> async, callArgs |-> callArgs,
   fname |-> fname]

\* wrap(wrap, base): the wrapper takes the name of the base function.
wrap(cb, base) == [cb EXCEPT !.fname = base[3]]

\* One call runner.<op>(name, callback, settings); for a child suite, body
\* holds the calls its callback issued once the runner has invoked it.
Call(op, name, cb, settings) ==
  [op |-> op, name |-> name, cb |-> cb, settings |-> settings,
   invoked |-> FALSE, body |-> <<>>]

\* No settings argument, or getSettings returning undefined.
NoSettings == <<>>

SettingNames == {"slow", "timeout", "retries", "execution"}

getSettings(obj) ==
  [k \in {n \in SettingNames : MakeSymbol(n) \in DOMAIN obj} |-> obj[MakeSymbol(k)]]

\* The test of the arity that does not look at the parameter sets.
isAsyncWhateverParameters(method) == LengthOf(method) > 0

isAsync(method) ==
  LET isParameterised == parametersSymbol \in DOMAIN funcs[method]
      length == LengthOf(method)
  IN (isParameterised /\ length > 1) \/ (~isParameterised /\ length > 0)

\* Property keys that are canonical array indices, with their value: an
\* object lists them first, in ascending order, whatever the insertion order.
ArrayIndex == [k \in {"0", "1", "2", "3"} |->
                 CASE k = "0" -> 0 [] k = "1" -> 1 [] k = "2" -> 2 [] k = "3" -> 3]

RECURSIVE AscendingIndices(_)
AscendingIndices(S) ==
  IF S = {} THEN <<>>
  ELSE LET least == CHOOSE k \in S : \A j \in S : ArrayIndex[k] <= ArrayIndex[j]
       IN <<least>> \o AscendingIndices(S \ {least})

\* The order in which Object.getOwnPropertyNames and for-in list the string
\* keys of an object whose keys were created in the order of `keys`.
PropertyOrder(keys) ==
  AscendingIndices({k \in Range(keys) : k \in DOMAIN ArrayIndex})
    \o SelectSeq(keys, LAMBDA k : k \notin DOMAIN ArrayIndex)

\* Members every object literal inherits from Object.prototype.
ObjectPrototypeNames ==
  {"constructor", "toString", "toLocaleString", "valueOf", "hasOwnProperty",
   "isPrototypeOf", "propertyIsEnumerable", "__proto__"}

\* Object.getOwnPropertyNames(X.prototype).
OwnPropertyNames(o) ==
  LET members == IF o \in ClassNames(prog) THEN DeclOf(prog, o).members ELSE <<>>
      instance == SelectSeq(members, LAMBDA m : ~m.static)
  IN PropertyOrder(<<"constructor">> \o [i \in 1..Len(instance) |-> instance[i].key])

\* The metadata of prototype[key], read through the most derived prototype.
PrototypeValueProps(target, key) ==
  IF key = "constructor" THEN PropsOf(target)
  ELSE funcs[PrototypeMethod(target, key)]

\* The lookup without the own entries: nothing shadows.
CollectedTruthyForgetful(collected, key) == key \in ObjectPrototypeNames

\* collectedTests[key] is truthy: collected already, or inherited by the
\* object literal from Object.prototype.
CollectedTruthy(collected, key) ==
  \/ \E i \in 1..Len(collected) : collected[i].key = key
  \/ key \in ObjectPrototypeNames

\* The forEach over the own property names of one prototype of the chain.
RECURSIVE CollectLevel(_, _, _)
CollectLevel(target, keys, collected) ==
  IF keys = <<>> THEN collected
  ELSE LET key == Head(keys)
           method == PrototypeValueProps(target, key)
           isTest == /\ nameSymbol \in DOMAIN method
                     /\ Truthy(method[nameSymbol])
                     /\ ~CollectedTruthy(collected, key)
       IN CollectLevel(target, Tail(keys),
                       IF isTest
                       THEN Append(collected,
                                   [key |-> key, method |-> PrototypeMethod(target, key)])
                       ELSE collected)

\* The lookup with the wrong symbol.
MarkedByName(o) == nameSymbol \in DOMAIN PropsOf(o)

\* currentPrototype.constructor[suiteSymbol]
MarkedSuite(o) == suiteSymbol \in DOMAIN PropsOf(o)

\* The while loop over the prototype chain: the collected tests, and whether
\* it threw the configuration error.
RECURSIVE WalkPrototypes(_, _, _, _)
WalkPrototypes(target, chain, i, collected) ==
  LET here == CollectLevel(target, OwnPropertyNames(chain[i]), collected)
  IN IF i + 1 <= Len(chain) /\ MarkedSuite(chain[i + 1])
     THEN [collectedTests |-> here, thrown |-> TRUE]
     ELSE IF i + 1 > Len(chain)
          THEN [collectedTests |-> here, thrown |-> FALSE]
          ELSE WalkPrototypes(target, chain, i + 1, here)

applyTestFunc(testName, method, callArgs, testSettings) ==
  <<Call("test", testName, Callback("test", method, isAsync(method), callArgs, ""),
         testSettings)>>

declareTestMethod(method) ==
  LET testName == funcs[method][nameSymbol]
  IN IF parametersSymbol \in DOMAIN funcs[method]
     THEN <<Call("suite", testName, Callback("parameterised", method, FALSE, <<>>, ""),
                 getSettings(funcs[method]))>>
     ELSE applyTestFunc(testName, method, <<>>, getSettings(funcs[method]))

\* A naming function given to params.naming, applied to a params value.
ApplyNaming(nameForParameters, params) == nameForParameters \o "(" \o params \o ")"

\* The body with the naming function consulted before the set's own name.
ParameterisedSuiteBodyNamingFirst(testName, method) ==
  LET parameters == funcs[method][parametersSymbol]
      named(i) ==
        LET parameterOptions == parameters[i]
        IN IF nameForParametersSymbol \in DOMAIN funcs[method]
           THEN ApplyNaming(funcs[method][nameForParametersSymbol],
                            parameterOptions.params)
           ELSE IF Truthy(parameterOptions.name) THEN parameterOptions.name
                ELSE testName \o "_" \o ToString(i - 1)
  IN Flatten([i \in 1..Len(parameters) |->
                <<Call("test", named(i),
                       Callback("test", method, isAsync(method),
                                <<parameters[i].params>>, ""),
                       "execution" :> parameters[i].execution)>>])

\* The body of the child suite declared for a parameterised method.
ParameterisedSuiteBody(testName, method) ==
  LET parameters == funcs[method][parametersSymbol]
      named(i) ==
        LET parameterOptions == parameters[i]
        IN IF Truthy(parameterOptions.name) THEN parameterOptions.name
           ELSE IF nameForParametersSymbol \in DOMAIN funcs[method]
                THEN ApplyNaming(funcs[method][nameForParametersSymbol],
                                 parameterOptions.params)
                ELSE testName \o "_" \o ToString(i - 1)
  IN Flatten([i \in 1..Len(parameters) |->
                applyTestFunc(named(i), method, <<parameters[i].params>>,
                              "execution" :> parameters[i].execution)])

\* for (const key in collectedTests)
ForIn(collected) ==
  LET order == PropertyOrder([i \in 1..Len(collected) |-> collected[i].key])
  IN [i \in 1..Len(order) |->
        (CHOOSE c \in Range(collected) : c.key = order[i]).method]

\* A hook registration: async or not, the closure is wrapped with the hook
\* method as base.
Hook(op, name, kind, method, settings) ==
  <<Call(op, name, wrap(Callback(kind, method, isAsync(method), <<>>, ""), method),
         settings)>>

(***************************************************************************)
(* The registration callback returned by suiteCallbackFromClass(target),   *)
(* run once: the runner calls it issues, in order, and how it ended        *)
(* ("returned", or the exception it threw).                                *)
(***************************************************************************)
\* The error thrown after the test methods collected so far were declared.
ThrownAfterDeclaring(issued, collected) ==
  [calls |-> issued \o collected, outcome |-> "Error"]

\* The configuration error thrown from the walk: the callback ends with the
\* calls issued before the walk, the test methods collected so far are
\* never declared.
ThrownFromWalk(issued, collected) == [calls |-> issued, outcome |-> "Error"]

suiteCallbackFromClass(target) ==
  LET staticBefore == StaticMethod(target, "before")
      staticAfter == StaticMethod(target, "after")
      before == PrototypeMethod(target, "before")
      after == PrototypeMethod(target, "after")
      registerStaticBefore ==
        IF staticBefore # NoFunc
        THEN Hook("beforeAll", "static before", "staticBefore", staticBefore,
                  getSettings(funcs[staticBefore]))
        ELSE <<>>
      registerSetupInstance ==
        <<Call("beforeEach", "setup instance",
               Callback("setup", NoFunc, FALSE, <<>>, ""), NoSettings)>>
      registerBefore ==
        IF before # NoFunc
        THEN Hook("beforeEach", "before", "before", before, getSettings(funcs[before]))
        ELSE <<>>
      walk == WalkPrototypes(target, Chain(target), 1, <<>>)
      methods == ForIn(walk.collectedTests)
      tests == Flatten([i \in 1..Len(methods) |-> declareTestMethod(methods[i])])
      registerAfter ==
        IF after # NoFunc
        THEN Hook("afterEach", "after", "after", after, getSettings(funcs[after]))
        ELSE <<>>
      registerTeardownInstance ==
        <<Call("afterEach", "teardown instance",
               Callback("teardown", NoFunc, FALSE, <<>>, ""), NoSettings)>>
      upToWalk == registerStaticBefore \o registerSetupInstance \o registerBefore
      upToTeardown == upToWalk \o tests \o registerAfter \o registerTeardownInstance
  IN IF walk.thrown
     THEN ThrownFromWalk(upToWalk, tests)
     ELSE IF staticAfter = NoFunc
     THEN [calls |-> upToTeardown, outcome |-> "returned"]
     \* getSettings(target.before): `in` on undefined throws
     ELSE IF staticBefore = NoFunc
     THEN [calls |-> upToTeardown, outcome |-> "TypeError"]
     ELSE [calls |-> upToTeardown
                       \o Hook("afterAll", "static after", "staticAfter", staticAfter,
                               getSettings(funcs[staticBefore])),
           outcome |-> "returned"]

(***************************************************************************)
(* The class decorators.                                                   *)
(***************************************************************************)
\* Function.name of a constructor-like object.
FunctionName(o) ==
  IF o \in ClassNames(prog) THEN o
  ELSE IF o \in {"pending", "only", "skip"} THEN "decorator"
  ELSE ""

\* The test of the branch "used as @suite class MySuite {}": one argument,
\* a function that is not marked as a decorator.
UsedOnClass(args) == Len(args) = 1 /\ args[1].type = "function" /\ ~args[1].marked

\* makeSuiteFunction(execution), applied to the constructor ctor whose own
\* properties are props: the properties it leaves on ctor, the name and
\* settings of its runner.suite call, and whether it returns a function.
\* @suite and @suite() take the first branch, which does not return and so
\* falls through to return the decorator of line 269.
makeSuiteFunction(ctor, props, inherited, d) ==
  LET marked == WithExecution(Put(props, suiteSymbol, TRUE), d.exec)
      itself == d.form = "bare" \/ FactoryArguments(d) = <<>>
      bare == itself /\ UsedOnClass(<<Arg("function", FALSE, ctor)>>)
      decorated == IF bare THEN marked ELSE ApplyTraits(marked, "", d.traits)
      hasName == ~bare /\ d.name # Undefined
  IN [props |-> decorated,
      name |-> IF hasName THEN d.name ELSE FunctionName(ctor),
      settings |-> getSettings(decorated @@ inherited),
      returnsFunction |-> bare]

(***************************************************************************)
(* Instances and the callbacks' view of them.                              *)
(***************************************************************************)
\* A value of `this` or of the closure's instance variable: undefined,
\* null, the n-th object created for invocation inv (by the dependency
\* injection system `by`), or a class.
Ref(kind, inv, n, by) == [kind |-> kind, inv |-> inv, n |-> n, by |-> by]

UndefinedRef == Ref("undefined", 0, 0, "")

NullRef == Ref("null", 0, 0, "")

ClassRef(c) == Ref("class", 0, 0, c)

\* The systems a program registers besides the default one: one whose
\* handles() accepts every class and one whose handles() accepts class A
\* only.
DISystems == {"diAll", "diA"}

\* di.handles(testClass); the default system handles every class.
Handles(di, testClass) ==
  CASE di = "default" -> TRUE
    [] di = "diAll" -> TRUE
    [] di = "diA" -> testClass = "A"
    [] OTHER -> FALSE

\* The list with the new system added at its end.
registerDIAtEnd(systems, instantiator) ==
  IF \E i \in 1..Len(systems) : systems[i] = instantiator THEN systems
  ELSE Append(systems, instantiator)

\* registerDI: a system not yet in the list is added at its front.
registerDI(systems, instantiator) ==
  IF \E i \in 1..Len(systems) : systems[i] = instantiator THEN systems
  ELSE <<instantiator>> \o systems

\* One object made for the first test and handed out again afterwards.
createInstanceOnce(testClass, inv, n) == Ref("object", inv, 1, "default")

\* createInstance: the first registered system that handles the class
\* creates a fresh object.
createInstance(testClass, inv, n) ==
  LET di == dependencyInjectionSystems[
              CHOOSE i \in 1..Len(dependencyInjectionSystems) :
                /\ Handles(dependencyInjectionSystems[i], testClass)
                /\ \A j \in 1..(i - 1) : ~Handles(dependencyInjectionSystems[j], testClass)]
  IN Ref("object", inv, n, di)

(***************************************************************************)
(* The runner's plan for one invocation: beforeAll hooks, then for every   *)
(* test the beforeEach hooks in registration order, the test, the          *)
(* afterEach hooks in registration order, then the afterAll hooks.         *)
(***************************************************************************)
HooksOf(inv, op) == SelectSeq(inv.calls, LAMBDA c : c.op = op)

\* The tests of the suite, then those of its child suites.
TestsOf(inv) ==
  HooksOf(inv, "test")
    \o Flatten([j \in 1..Len(inv.calls) |->
                  IF inv.calls[j].op = "suite" THEN inv.calls[j].body ELSE <<>>])

Pos(phase, t, h) == [phase |-> phase, t |-> t, h |-> h]

StartPos == Pos("beforeAll", 0, 1)

\* The next callback to call from position p on, skipping empty stages.
RECURSIVE NextCallback(_, _)
NextCallback(inv, p) ==
  CASE p.phase = "beforeAll" ->
         IF p.h <= Len(HooksOf(inv, "beforeAll")) THEN p
         ELSE NextCallback(inv, Pos("beforeEach", 1, 1))
    [] p.phase = "beforeEach" ->
         IF p.t > Len(TestsOf(inv)) THEN NextCallback(inv, Pos("afterAll", p.t, 1))
         ELSE IF p.h <= Len(HooksOf(inv, "beforeEach")) THEN p
         ELSE Pos("test", p.t, 1)
    [] p.phase = "afterEach" ->
         IF p.h <= Len(HooksOf(inv, "afterEach")) THEN p
         ELSE NextCallback(inv, Pos("beforeEach", p.t + 1, 1))
    [] p.phase = "afterAll" ->
         IF p.h <= Len(HooksOf(inv, "afterAll")) THEN p ELSE Pos("done", 0, 0)
    [] OTHER -> p

Current(inv) == NextCallback(inv, inv.pos)

CurrentCall(inv) ==
  LET p == Current(inv)
  IN IF p.phase = "test" THEN TestsOf(inv)[p.t] ELSE HooksOf(inv, p.phase)[p.h]

Running(inv) == inv.pos # StartPos /\ Current(inv).phase # "done"

\* The value that a call of the method with these arguments returned.
ReturnValue(method, this, args) == <<"result", method, this, args>>

\* What a callback does when the runner calls it (the kind of the call, the
\* test it belongs to, this, the method it defers to, the arguments it
\* passes, the closure's instance afterwards and what the callback returns
\* to the runner: what the method returned, or nothing when it defers to
\* no method).
Event(kind, t, this, method, args, instance) ==
  [kind |-> kind, test |-> t, this |-> this, method |-> method, args |-> args,
   instance |-> instance,
   returns |-> IF method = NoFunc THEN Undefined ELSE ReturnValue(method, this, args)]

(***************************************************************************)
(* The state machine.                                                      *)
(***************************************************************************)
Init ==
  /\ prog \in Programs
  /\ pcDef = 0
  /\ funcs = [f \in FuncIds(prog) |-> <<>>]
  /\ ctors = [o \in Objects(prog) |-> [parent |-> "Object", props |-> <<>>]]
  /\ binding = [c \in ClassNames(prog) |-> Undefined]
  /\ dependencyInjectionSystems = <<"default">>
  /\ suites = <<>>
  /\ invs = <<>>
  /\ diCalls = <<>>
  /\ returned = <<>>
  /\ runner = "sequential"

Loaded == pcDef = Len(Script(prog))

Step == Script(prog)[pcDef + 1]

\* The class body is evaluated: the constructor extends whatever its
\* parent's name is bound to at that moment.
DefineClass ==
  /\ ~Loaded
  /\ Step.op = "class"
  /\ LET decl == DeclOf(prog, Step.cls)
     IN /\ ctors' = [ctors EXCEPT ![decl.name].parent =
                       IF decl.parent = "Object" THEN "Object"
                       ELSE binding[decl.parent]]
        /\ binding' = [binding EXCEPT ![decl.name] = decl.name]
  /\ pcDef' = pcDef + 1
  /\ UNCHANGED <<prog, funcs, dependencyInjectionSystems, suites, invs, diCalls,
                 returned, runner>>

\* A method decorator (test, params, params.naming, slow, timeout, retries,
\* pending, only, skip) is applied to target[propertyKey].
DecorateMethod ==
  /\ ~Loaded
  /\ Step.op = "method"
  /\ LET m == DeclOf(prog, Step.cls).members[Step.member]
     IN funcs' = [funcs EXCEPT ![<<Step.cls, m.static, m.key>>] =
                    ApplyMethodDecorator(@, m.key, Step.deco, m.static)]
        /\ returned' = Append(returned,
                              [step |-> pcDef + 1,
                               value |-> MethodDecoratorReturns(Step.deco, m.static)])
  /\ pcDef' = pcDef + 1
  /\ UNCHANGED <<prog, ctors, binding, dependencyInjectionSystems, suites, invs,
                 diCalls, runner>>

\* A class decorator other than suite (slow, timeout, retries, pending,
\* only, skip) is applied to the current value of the class binding.
DecorateClass ==
  /\ ~Loaded
  /\ Step.op = "ctor"
  /\ Step.deco.d # "suite"
  /\ ctors' = [ctors EXCEPT ![binding[Step.cls]].props = ApplyTrait(@, "", Step.deco)]
  /\ returned' = Append(returned, [step |-> pcDef + 1, value |-> Undefined])
  /\ pcDef' = pcDef + 1
  /\ UNCHANGED <<prog, funcs, binding, dependencyInjectionSystems, suites, invs,
                 diCalls, runner>>

\* The suite decorator is applied to the current value of the class
\* binding: it marks the constructor, calls runner.suite and, when it
\* returns a function, the binding takes that function.
DecorateSuite ==
  /\ ~Loaded
  /\ Step.op = "ctor"
  /\ Step.deco.d = "suite"
  /\ LET ctor == binding[Step.cls]
         r == makeSuiteFunction(ctor, ctors[ctor].props,
                                PropsAlong(Tail(Chain(ctor))), Step.deco)
     IN /\ ctors' = [ctors EXCEPT ![ctor].props = r.props]
        /\ suites' = Append(suites, [name |-> r.name, target |-> ctor,
                                     settings |-> r.settings])
        /\ binding' = IF r.returnsFunction
                      THEN [binding EXCEPT ![Step.cls] = ReturnedDecorator(Step.cls)]
                      ELSE binding
        /\ returned' = Append(returned,
                              [step |-> pcDef + 1,
                               value |-> IF r.returnsFunction THEN "function"
                                         ELSE Undefined])
  /\ pcDef' = pcDef + 1
  /\ UNCHANGED <<prog, funcs, dependencyInjectionSystems, invs, diCalls,
                 runner>>

\* suite(...) is called with its configuration arguments.  Without
\* arguments it returns itself.  With one argument that is a function not
\* marked as a decorator (pending, only, skip, X(true), X(false)) it takes
\* the branch meant for `@suite class`: it marks that function, calls
\* runner.suite for it and falls through.  It returns the decorator of
\* line 269.
CallSuite ==
  /\ ~Loaded
  /\ Step.op = "call"
  /\ Step.deco.d = "suite"
  /\ LET args == FactoryArguments(Step.deco)
     IN IF UsedOnClass(args)
        THEN LET ctor == args[1].fn
                 r == makeSuiteFunction(ctor, ctors[ctor].props, <<>>,
                                        SuiteBare(Step.deco.exec))
             IN /\ ctors' = [ctors EXCEPT ![ctor].props = r.props]
                /\ suites' = Append(suites, [name |-> r.name, target |-> ctor,
                                             settings |-> r.settings])
        ELSE UNCHANGED <<ctors, suites>>
  /\ returned' = Append(returned, [step |-> pcDef + 1, value |-> "function"])
  /\ pcDef' = pcDef + 1
  /\ UNCHANGED <<prog, funcs, binding, dependencyInjectionSystems, invs, diCalls,
                 runner>>

\* test(...) is called with a name or traits: it returns the decorator of
\* the shape that testOverload selects.
CallTest ==
  /\ ~Loaded
  /\ Step.op = "call"
  /\ Step.deco.d = "test"
  /\ returned' = Append(returned,
                        [step |-> pcDef + 1,
                         value |-> IF testOverload(FactoryArguments(Step.deco)) = "testProperty"
                                   THEN Undefined ELSE "function"])
  /\ pcDef' = pcDef + 1
  /\ UNCHANGED <<prog, funcs, ctors, binding, dependencyInjectionSystems, suites, invs,
                 diCalls, runner>>

\* The runner collects the registrations, once the program is loaded, before
\* it runs anything.
Collecting == \A i \in 1..Len(invs) : invs[i].pos = StartPos

\* The runner invokes the registration callback of a registered suite.
InvokeSuiteCallback(k) ==
  /\ Len(invs) < (IF runner = "concurrent" THEN MaxConcurrent ELSE MaxInvocations)
  /\ Loaded
  /\ Collecting
  /\ LET r == suiteCallbackFromClass(suites[k].target)
     IN invs' = Append(invs, [suite |-> k, target |-> suites[k].target,
                              calls |-> r.calls, outcome |-> r.outcome,
                              instance |-> UndefinedRef, created |-> 0,
                              pos |-> StartPos, log |-> <<>>])
  /\ UNCHANGED <<prog, pcDef, funcs, ctors, binding, dependencyInjectionSystems,
                 suites, diCalls, returned, runner>>

\* The runner invokes the callback of a child suite declared for a
\* parameterised method.
InvokeChildSuite(i, j) ==
  /\ Collecting
  /\ invs[i].calls[j].op = "suite"
  /\ ~invs[i].calls[j].invoked
  /\ LET call == invs[i].calls[j]
     IN invs' = [invs EXCEPT ![i].calls[j] =
                   [call EXCEPT !.invoked = TRUE,
                                !.body = ParameterisedSuiteBody(call.name, call.cb.method)]]
  /\ UNCHANGED <<prog, pcDef, funcs, ctors, binding, dependencyInjectionSystems,
                 suites, diCalls, returned, runner>>

\* The runner runs a suite once the program is loaded, its registration
\* callback has returned and its child suites are declared; a sequential
\* runner runs one suite at a time, in the order their callbacks were
\* invoked, a concurrent one interleaves their callbacks.
CanRun(i) ==
  /\ Loaded
  /\ invs[i].outcome = "returned"
  /\ \A j \in 1..Len(invs[i].calls) :
       invs[i].calls[j].op = "suite" => invs[i].calls[j].invoked
  /\ runner = "sequential" =>
       /\ \A j \in 1..Len(invs) : j # i => ~Running(invs[j])
       /\ \A j \in 1..(i - 1) :
            Current(invs[j]).phase = "done" \/ invs[j].outcome # "returned"
  /\ Current(invs[i]).phase # "done"

\* The call with one instance variable shared by every invocation.
CalledSharingInstance(i, event, pos) ==
  /\ invs' = [j \in 1..Len(invs) |->
               IF j = i
               THEN [invs[j] EXCEPT !.instance = event.instance,
                                    !.log = Append(@, event),
                                    !.pos = pos,
                                    !.created = IF event.kind = "setup" THEN @ + 1 ELSE @]
               ELSE [invs[j] EXCEPT !.instance = event.instance]]
  /\ UNCHANGED <<prog, pcDef, funcs, ctors, binding, dependencyInjectionSystems,
                 suites, diCalls, returned, runner>>

\* The callback was called: its effect on the instance variable of its own
\* closure, the record of the call, and the runner's new position.
Called(i, event, pos) ==
  /\ invs' = [invs EXCEPT ![i].instance = event.instance,
                          ![i].log = Append(@, event),
                          ![i].pos = pos,
                          ![i].created = IF event.kind = "setup" THEN @ + 1 ELSE @]
  /\ UNCHANGED <<prog, pcDef, funcs, ctors, binding, dependencyInjectionSystems,
                 suites, diCalls, returned, runner>>

NextHook(p) == Pos(p.phase, p.t, p.h + 1)

\* The body of the "teardown instance" callback: instance = null.
teardownInstanceKeeping(instance) == instance

teardownInstance(instance) == NullRef

\* beforeAll "static before": target.before(done?)
RunStaticBefore(i) ==
  /\ CanRun(i)
  /\ CurrentCall(invs[i]).cb.kind = "staticBefore"
  /\ LET inv == invs[i]
         cb == CurrentCall(inv).cb
     IN Called(i, Event("staticBefore", 0, ClassRef(inv.target),
                        StaticMethod(inv.target, "before"),
                        IF cb.async THEN <<"done">> ELSE <<>>, inv.instance),
               NextHook(Current(inv)))

\* beforeEach "setup instance": instance = createInstance(target)
RunSetupInstance(i) ==
  /\ CanRun(i)
  /\ CurrentCall(invs[i]).cb.kind = "setup"
  /\ LET inv == invs[i]
     IN Called(i, Event("setup", Current(inv).t, UndefinedRef, NoFunc, <<>>,
                        createInstance(inv.target, i, inv.created + 1)),
               NextHook(Current(inv)))

\* A failed step that leaves null in the closure's variable.
setupInstanceThrewClearing(instance) == NullRef

\* The closure's variable after `instance = createInstance(target)` when
\* createInstance throws: the assignment does not happen.
setupInstanceThrew(instance) == instance

\* beforeEach "setup instance" when di.create or the constructor throws:
\* nothing catches the exception; the runner skips the remaining beforeEach
\* hooks and the test and goes on with the afterEach hooks.
RunSetupInstanceThrows(i) ==
  /\ CanRun(i)
  /\ CurrentCall(invs[i]).cb.kind = "setup"
  /\ LET inv == invs[i]
     IN Called(i, Event("setupThrew", Current(inv).t, UndefinedRef, NoFunc, <<>>,
                        setupInstanceThrew(inv.instance)),
               Pos("afterEach", Current(inv).t, 1))

\* beforeEach "before": prototype.before.call(instance, done?)
RunBefore(i) ==
  /\ CanRun(i)
  /\ CurrentCall(invs[i]).cb.kind = "before"
  /\ LET inv == invs[i]
         cb == CurrentCall(inv).cb
     IN Called(i, Event("before", Current(inv).t, inv.instance,
                        PrototypeMethod(inv.target, "before"),
                        IF cb.async THEN <<"done">> ELSE <<>>, inv.instance),
               NextHook(Current(inv)))

\* A test that passes the parameter value before the completion callback.
RunTestValueFirst(i) ==
  /\ CanRun(i)
  /\ CurrentCall(invs[i]).cb.kind = "test"
  /\ LET inv == invs[i]
         cb == CurrentCall(inv).cb
     IN Called(i, Event("test", Current(inv).t, inv.instance, cb.method,
                        cb.callArgs \o (IF cb.async THEN <<"done">> ELSE <<>>),
                        inv.instance),
               Pos("afterEach", Current(inv).t, 1))

\* A test: return method.call(instance, done?, ...callArgs)
RunTest(i) ==
  /\ CanRun(i)
  /\ CurrentCall(invs[i]).cb.kind = "test"
  /\ LET inv == invs[i]
         cb == CurrentCall(inv).cb
     IN Called(i, Event("test", Current(inv).t, inv.instance, cb.method,
                        (IF cb.async THEN <<"done">> ELSE <<>>) \o cb.callArgs,
                        inv.instance),
               Pos("afterEach", Current(inv).t, 1))

\* afterEach "after": prototype.after.call(instance, done?)
RunAfter(i) ==
  /\ CanRun(i)
  /\ CurrentCall(invs[i]).cb.kind = "after"
  /\ LET inv == invs[i]
         cb == CurrentCall(inv).cb
     IN Called(i, Event("after", Current(inv).t, inv.instance,
                        PrototypeMethod(inv.target, "after"),
                        IF cb.async THEN <<"done">> ELSE <<>>, inv.instance),
               NextHook(Current(inv)))

\* afterEach "teardown instance": instance = null
RunTeardownInstance(i) ==
  /\ CanRun(i)
  /\ CurrentCall(invs[i]).cb.kind = "teardown"
  /\ LET inv == invs[i]
     IN Called(i, Event("teardown", Current(inv).t, UndefinedRef, NoFunc, <<>>,
                        teardownInstance(inv.instance)),
               NextHook(Current(inv)))

\* afterAll "static after": target.after(done?)
RunStaticAfter(i) ==
  /\ CanRun(i)
  /\ CurrentCall(invs[i]).cb.kind = "staticAfter"
  /\ LET inv == invs[i]
         cb == CurrentCall(inv).cb
     IN Called(i, Event("staticAfter", 0, ClassRef(inv.target),
                        StaticMethod(inv.target, "after"),
                        IF cb.async THEN <<"done">> ELSE <<>>, inv.instance),
               NextHook(Current(inv)))

\* A registration that moves a system already in the list to its front.
RegisterDIMovingToFront(instantiator) ==
  /\ Len(diCalls) < MaxRegistrations
  /\ dependencyInjectionSystems' =
       <<instantiator>> \o SelectSeq(dependencyInjectionSystems,
                                     LAMBDA di : di # instantiator)
  /\ diCalls' = Append(diCalls, instantiator)
  /\ UNCHANGED <<prog, pcDef, funcs, ctors, binding, suites, invs, returned,
                 runner>>

\* The program registers a dependency-injection system, at any moment.
RegisterDI(instantiator) ==
  /\ Len(diCalls) < MaxRegistrations
  /\ dependencyInjectionSystems' = registerDI(dependencyInjectionSystems, instantiator)
  /\ diCalls' = Append(diCalls, instantiator)
  /\ UNCHANGED <<prog, pcDef, funcs, ctors, binding, suites, invs, returned,
                 runner>>

Next ==
  \/ DefineClass
  \/ DecorateMethod
  \/ DecorateClass
  \/ DecorateSuite
  \/ CallSuite
  \/ CallTest
  \/ \E k \in 1..Len(suites) : InvokeSuiteCallback(k)
  \/ \E i \in 1..Len(invs) : \E j \in 1..Len(invs[i].calls) : InvokeChildSuite(i, j)
  \/ \E i \in 1..Len(invs) : RunStaticBefore(i)
  \/ \E i \in 1..Len(invs) : RunSetupInstance(i)
  \/ \E i \in 1..Len(invs) : RunSetupInstanceThrows(i)
  \/ \E i \in 1..Len(invs) : RunBefore(i)
  \/ \E i \in 1..Len(invs) : RunTest(i)
  \/ \E i \in 1..Len(invs) : RunAfter(i)
  \/ \E i \in 1..Len(invs) : RunTeardownInstance(i)
  \/ \E i \in 1..Len(invs) : RunStaticAfter(i)

Spec == Init /\ [][Next]_vars

\* The programs of DIPrograms, with calls of registerDI.
InitDI ==
  /\ prog \in DIPrograms
  /\ pcDef = 0
  /\ funcs = [f \in FuncIds(prog) |-> <<>>]
  /\ ctors = [o \in Objects(prog) |-> [parent |-> "Object", props |-> <<>>]]
  /\ binding = [c \in ClassNames(prog) |-> Undefined]
  /\ dependencyInjectionSystems = <<"default">>
  /\ suites = <<>>
  /\ invs = <<>>
  /\ diCalls = <<>>
  /\ returned = <<>>
  /\ runner = "sequential"

NextDI ==
  \/ \E instantiator \in DISystems : RegisterDI(instantiator)
  \/ Next

SpecDI == InitDI /\ [][NextDI]_vars

\* The programs of DIPrograms under a runner that interleaves the callbacks
\* of the suites it runs.
InitConcurrent ==
  /\ prog \in DIPrograms
  /\ pcDef = 0
  /\ funcs = [f \in FuncIds(prog) |-> <<>>]
  /\ ctors = [o \in Objects(prog) |-> [parent |-> "Object", props |-> <<>>]]
  /\ binding = [c \in ClassNames(prog) |-> Undefined]
  /\ dependencyInjectionSystems = <<"default">>
  /\ suites = <<>>
  /\ invs = <<>>
  /\ diCalls = <<>>
  /\ returned = <<>>
  /\ runner = "concurrent"

SpecConcurrent == InitConcurrent /\ [][Next]_vars

(***************************************************************************)
(* Properties.  What the source text of the program declares, used to      *)
(* state what is expected of the registrations.                            *)
(***************************************************************************)
Invocations == 1..Len(invs)

\* The class, or a class it inherits from, declares the method.
Declares(target, static, key) ==
  \E k \in 1..Len(Chain(target)) : HasMember(Chain(target)[k], static, key)

OpsOf(calls) == [j \in 1..Len(calls) |-> <<calls[j].op, calls[j].name>>]

ExpectedOpening(target) ==
  (IF Declares(target, TRUE, "before")
   THEN <<<<"beforeAll", "static before">>>> ELSE <<>>)
    \o <<<<"beforeEach", "setup instance">>>>
    \o (IF Declares(target, FALSE, "before")
        THEN <<<<"beforeEach", "before">>>> ELSE <<>>)

ExpectedClosing(target) ==
  (IF Declares(target, FALSE, "after")
   THEN <<<<"afterEach", "after">>>> ELSE <<>>)
    \o <<<<"afterEach", "teardown instance">>>>
    \o (IF Declares(target, TRUE, "after")
        THEN <<<<"afterAll", "static after">>>> ELSE <<>>)

InRegistrationOrder(inv) ==
  LET ops == OpsOf(inv.calls)
      opening == ExpectedOpening(inv.target)
      closing == ExpectedClosing(inv.target)
  IN /\ Len(ops) >= Len(opening) + Len(closing)
     /\ SubSeq(ops, 1, Len(opening)) = opening
     /\ SubSeq(ops, Len(ops) - Len(closing) + 1, Len(ops)) = closing
     /\ \A j \in (Len(opening) + 1)..(Len(ops) - Len(closing)) :
          ops[j][1] \in {"test", "suite"}

\* C1: for every suite class (that is not rejected with the configuration
\* error of a suite ancestor), one invocation of its registration callback
\* issues beforeAll "static before" iff the class has a static before, then
\* beforeEach "setup instance", then beforeEach "before" iff the prototype
\* has before, then only test and child suite registrations, then afterEach
\* "after" iff the prototype has after, then afterEach "teardown instance",
\* then afterAll "static after" iff the class has a static after; setup and
\* teardown are issued exactly once each.
C1_RegistrationOrder ==
  \A i \in Invocations : invs[i].outcome # "Error" => InRegistrationOrder(invs[i])

EventsOf(inv, kinds, t) ==
  {a \in 1..Len(inv.log) : inv.log[a].kind \in kinds /\ inv.log[a].test = t}

InstanceCallbacks == {"before", "test", "after"}

OneInstance(inv, a) ==
  LET log == inv.log
      obj == log[a].instance
      t == log[a].test
  IN /\ obj.kind = "object"
     /\ \A b \in 1..Len(log) :
          /\ (b # a /\ log[b].kind = "setup")
               => (log[b].instance # obj /\ log[b].test # t)
          /\ (log[b].kind \in InstanceCallbacks /\ log[b].test = t)
               => (log[b].this = obj /\ b > a)
          /\ (log[b].kind \in InstanceCallbacks /\ log[b].test # t)
               => log[b].this # obj
     /\ EventsOf(inv, {"teardown"}, t) # {} =>
          /\ EventsOf(inv, {"test"}, t) # {}
          /\ Declares(inv.target, FALSE, "before") => EventsOf(inv, {"before"}, t) # {}
          /\ Declares(inv.target, FALSE, "after") => EventsOf(inv, {"after"}, t) # {}

\* C2: for every test whose "setup instance" step created an instance, the
\* instance before hook, the test method and the instance after hook of that
\* test are called, after the step, with this bound to that instance; the
\* step runs once per test and creates an object no other test's step
\* created; no before, test or after call of another test has it as this.
C2_OneInstancePerTest ==
  \A i \in Invocations : \A a \in 1..Len(invs[i].log) :
    invs[i].log[a].kind = "setup" => OneInstance(invs[i], a)

\* Two tests of a suite with before and after hooks ran to their teardown,
\* each on the instance its own setup step created.
C2_Witness ==
  \E i \in Invocations :
    /\ Declares(invs[i].target, FALSE, "before")
    /\ Declares(invs[i].target, FALSE, "after")
    /\ \A t \in 1..2 :
         /\ EventsOf(invs[i], {"setup"}, t) # {}
         /\ EventsOf(invs[i], {"before"}, t) # {}
         /\ EventsOf(invs[i], {"test"}, t) # {}
         /\ EventsOf(invs[i], {"after"}, t) # {}
         /\ EventsOf(invs[i], {"teardown"}, t) # {}

\* The methods of a class body decorated with a bare @test, in the order
\* they are declared.
DeclaredTests(decl) ==
  SelectSeq(decl.members,
            LAMBDA m : ~m.static /\ m.decos = <<TestBare(Undefined)>>)

\* A class without a base class whose methods other than the lifecycle
\* hooks are undecorated or carry a bare @test.
SimpleSuite(decl) ==
  /\ decl.parent = "Object"
  /\ \A m \in Range(decl.members) :
       \/ m.decos \in {<<>>, <<TestBare(Undefined)>>}
       \/ m.key \in {"before", "after"}

TestCallsOf(inv) == SelectSeq(inv.calls, LAMBDA c : c.op = "test")

\* C3: for every suite class without a base class that has N methods
\* decorated with test, whatever their property keys, and any number of
\* undecorated methods, the registration callback issues exactly N
\* runner.test calls, one per decorated method, in the order the methods are
\* declared, and none for the undecorated methods.
C3_DeclaredOrder ==
  \A i \in Invocations :
    LET decl == DeclOf(prog, invs[i].target)
        declared == DeclaredTests(decl)
        issued == TestCallsOf(invs[i])
    IN SimpleSuite(decl) =>
         /\ Len(issued) = Len(declared)
         /\ \A j \in 1..Len(declared) :
              issued[j].cb.method = <<decl.name, FALSE, declared[j].key>>

\* S extends a class B that is not a suite, no ancestor of S is a suite, and
\* both B and S declare the test-decorated method key.
Overrides(S, key) ==
  /\ Len(Chain(S)) >= 2
  /\ \A k \in 2..Len(Chain(S)) : suiteSymbol \notin DOMAIN ctors[Chain(S)[k]].props
  /\ LET B == Chain(S)[2]
         tested(c) == \E m \in Range(DeclOf(prog, c).members) :
                        ~m.static /\ m.key = key /\ m.decos = <<TestBare(Undefined)>>
     IN B \in ClassNames(prog) /\ tested(B) /\ tested(S)

\* C4: for a suite class S extending a non-suite base class B, where B
\* declares a test-decorated method M and S overrides it with its own
\* test-decorated method, registering S issues exactly one test registration
\* for M, its callback defers to S's override, and running it calls S's
\* override.
C4_Shadowing ==
  \A i \in Invocations :
    LET S == invs[i].target
        forM == SelectSeq(invs[i].calls,
                          LAMBDA c : c.op = "test" /\ c.cb.method[3] = "m")
    IN Overrides(S, "m") =>
         /\ Len(forM) = 1
         /\ forM[1].cb.method = <<S, FALSE, "m">>
         /\ forM[1].name = "m"
         /\ \A a \in 1..Len(invs[i].log) :
              (invs[i].log[a].kind = "test") => invs[i].log[a].method = <<S, FALSE, "m">>

\* The override of S was registered once and ran.
C4_Witness ==
  \E i \in Invocations :
    /\ Overrides(invs[i].target, "m")
    /\ Len(TestCallsOf(invs[i])) = 1
    /\ \E a \in 1..Len(invs[i].log) :
         /\ invs[i].log[a].kind = "test"
         /\ invs[i].log[a].method = <<invs[i].target, FALSE, "m">>

\* Some class of the prototype chain above target is marked as a suite.
SuiteAncestor(target) ==
  \E k \in 2..Len(Chain(target)) : suiteSymbol \in DOMAIN ctors[Chain(target)[k]].props

ExpectedParameterisedName(method, i) ==
  LET set == funcs[method][parametersSymbol][i]
  IN IF set.name # Undefined THEN set.name
     ELSE IF nameForParametersSymbol \in DOMAIN funcs[method]
          THEN ApplyNaming(funcs[method][nameForParametersSymbol], set.params)
          ELSE funcs[method][nameSymbol] \o "_" \o ToString(i - 1)

\* The test methods of target that carry parameter sets.
ParameterisedMethods(target) ==
  {f \in {PrototypeMethod(target, m.key) :
            m \in UNION {Range(DeclOf(prog, c).members) :
                           c \in Range(Chain(target)) \cap ClassNames(prog)}} :
     f # NoFunc /\ parametersSymbol \in DOMAIN funcs[f]}

\* C6: for every test method carrying K parameter sets, registering the
\* suite issues exactly one child runner.suite call, named with the method's
\* display name, whose body issues exactly K runner.test calls, the i-th
\* named by the set's own name if it has one, otherwise by the naming
\* function applied to the set's params value, otherwise by
\* <display name>_<i> (i counted from 0), and passing that set's params.
C6_ParameterisedChildSuite ==
  \A i \in Invocations : invs[i].outcome # "Error" =>
    \A f \in ParameterisedMethods(invs[i].target) :
      LET sets == funcs[f][parametersSymbol]
          children == SelectSeq(invs[i].calls,
                                LAMBDA c : c.op = "suite" /\ c.cb.method = f)
      IN /\ Len(children) = 1
         /\ children[1].name = funcs[f][nameSymbol]
         /\ \A j \in 1..Len(invs[i].calls) :
              invs[i].calls[j].op = "test" => invs[i].calls[j].cb.method # f
         /\ children[1].invoked =>
              /\ Len(children[1].body) = Len(sets)
              /\ \A k \in 1..Len(sets) :
                   /\ children[1].body[k].op = "test"
                   /\ children[1].body[k].name = ExpectedParameterisedName(f, k)
                   /\ children[1].body[k].cb.callArgs = <<sets[k].params>>

\* A child suite with two tests was declared for a method that has a naming
\* function: one set has its own name and is named by it, the other has
\* none and is named by the naming function.
C6_Witness ==
  \E i \in Invocations : \E j \in 1..Len(invs[i].calls) :
    LET c == invs[i].calls[j]
    IN /\ c.op = "suite"
       /\ c.invoked
       /\ Len(c.body) = 2
       /\ nameForParametersSymbol \in DOMAIN funcs[c.cb.method]
       /\ \E k \in 1..2 :
            /\ funcs[c.cb.method][parametersSymbol][k].name # Undefined
            /\ c.body[k].name = funcs[c.cb.method][parametersSymbol][k].name
       /\ \E k \in 1..2 :
            /\ funcs[c.cb.method][parametersSymbol][k].name = Undefined
            /\ c.body[k].name =
                 ApplyNaming("byValue", funcs[c.cb.method][parametersSymbol][k].params)

\* The @params lines above a method, top to bottom.
ParamsInSource(f) ==
  LET decl == DeclOf(prog, f[1])
      m == CHOOSE m \in Range(decl.members) : m.static = f[2] /\ m.key = f[3]
  IN SelectSeq(m.decos, LAMBDA d : d.d = "params")

\* C7: for a method annotated with several params decorators, the tests of
\* its child suite are registered in the order the annotations appear top
\* to bottom in the source, and the index of the fallback name
\* <method>_<index> is the position in that order.
C7_SourceOrder ==
  \A i \in Invocations : \A j \in 1..Len(invs[i].calls) :
    LET c == invs[i].calls[j]
        source == ParamsInSource(c.cb.method)
    IN (c.op = "suite" /\ c.invoked /\ Len(source) >= 2) =>
         /\ Len(c.body) = Len(source)
         /\ \A k \in 1..Len(source) :
              /\ c.body[k].cb.callArgs = <<source[k].val>>
              /\ (source[k].name = Undefined
                    /\ nameForParametersSymbol \notin DOMAIN funcs[c.cb.method])
                   => c.body[k].name = c.name \o "_" \o ToString(k - 1)

\* C8: for every suite class with static before and static after, the
\* static before is invoked before the first instance is created, and the
\* static after is invoked only after every test's teardown step has run
\* and discarded its instance; a finished run has invoked both.
C8_StaticAroundInstances ==
  \A i \in Invocations :
    LET inv == invs[i]
        log == inv.log
    IN (Declares(inv.target, TRUE, "before") /\ Declares(inv.target, TRUE, "after")) =>
         /\ \A a \in 1..Len(log) :
              log[a].kind \in {"setup", "setupThrew"} =>
                \E b \in 1..(a - 1) : log[b].kind = "staticBefore"
         /\ \A a \in 1..Len(log) :
              log[a].kind = "staticAfter" =>
                /\ log[a].instance.kind # "object"
                /\ \A t \in 1..Len(TestsOf(inv)) :
                     \E b \in 1..(a - 1) : log[b].kind = "teardown" /\ log[b].test = t
                /\ \A b \in (a + 1)..Len(log) : log[b].kind # "setup"
         /\ (inv.pos # StartPos /\ Current(inv).phase = "done") =>
              /\ \E a \in 1..Len(log) : log[a].kind = "staticBefore"
              /\ \E a \in 1..Len(log) : log[a].kind = "staticAfter"

\* A suite with static before and static after finished its run: two
\* instances were created and the static after came last.
C8_Witness ==
  \E i \in Invocations :
    LET log == invs[i].log
    IN /\ Len(log) > 0
       /\ log[Len(log)].kind = "staticAfter"
       /\ log[1].kind = "staticBefore"
       /\ Cardinality({a \in 1..Len(log) : log[a].kind = "setup"}) = 2

MethodRegistrations == {"staticBefore", "before", "test", "after", "staticAfter"}

\* C9: in every registration of a static before, instance before, test,
\* instance after and static after the settings passed are those read from
\* the metadata of the method being registered; every class that has a
\* static after gets an afterAll "static after" registration with the
\* settings of that method, whether or not it has a static before.
C9_SettingsOfTheMethod ==
  \A i \in Invocations :
    /\ \A j \in 1..Len(invs[i].calls) :
         LET c == invs[i].calls[j]
         IN (c.cb.kind \in MethodRegistrations /\ c.cb.method # NoFunc) =>
              c.settings = getSettings(funcs[c.cb.method])
    /\ (invs[i].outcome # "Error" /\ Declares(invs[i].target, TRUE, "after")) =>
         \E j \in 1..Len(invs[i].calls) :
           /\ invs[i].calls[j].op = "afterAll"
           /\ invs[i].calls[j].settings =
                getSettings(funcs[StaticMethod(invs[i].target, "after")])

\* C10: the settings passed to every beforeAll, beforeEach, afterEach and
\* afterAll registration contain at most the keys slow and timeout, never an
\* execution mode or a retries value, even when the hook method carries
\* retries or execution metadata.
C10_HookSettings ==
  \A i \in Invocations : \A j \in 1..Len(invs[i].calls) :
    invs[i].calls[j].op \in {"beforeAll", "beforeEach", "afterEach", "afterAll"}
      => DOMAIN invs[i].calls[j].settings \subseteq {"slow", "timeout"}

\* The options slow(v), timeout(v), retries(v) written on a method, directly
\* or as traits of test(...): pairs <<option, v>>.
OptionsWritten(m) ==
  LET direct == {d \in Range(m.decos) : d.d \in {"slow", "timeout", "retries"}}
      traits == UNION {{t \in Range(d.traits) : t.d \in {"slow", "timeout", "retries"}} :
                         d \in Range(m.decos)}
  IN {<<d.d, d.num>> : d \in direct \cup traits}

MemberOf(f) ==
  CHOOSE m \in Range(DeclOf(prog, f[1]).members) : m.static = f[2] /\ m.key = f[3]

\* The runner.test calls that register the method f: in the suite itself and
\* in the bodies of its child suites.
TestRegistrations(inv, f) ==
  SelectSeq(TestsOf(inv), LAMBDA c : c.cb.method = f)

Carries(settings, option) ==
  option[1] \in DOMAIN settings /\ settings[option[1]] = option[2]

\* C11 as stated: for every test method decorated with timeout(v), slow(v)
\* or retries(v), parameterised or not, the settings of every runner.test
\* call that registers the method contain the option with the value v.
C11_Original ==
  \A i \in Invocations : \A j \in 1..Len(TestsOf(invs[i])) :
    LET c == TestsOf(invs[i])[j]
    IN \A o \in OptionsWritten(MemberOf(c.cb.method)) : Carries(c.settings, o)

\* C11, amended: for a test method that is not parameterised, the settings
\* of the runner.test call that registers it contain every option written on
\* it with its value v unchanged; for a parameterised method the options are
\* in the settings of its child runner.suite call, and the runner.test calls
\* of its parameter sets carry the execution of the set and nothing else.
C11_OptionsRoundTrip ==
  \A i \in Invocations : \A j \in 1..Len(invs[i].calls) :
    LET c == invs[i].calls[j]
        written == OptionsWritten(MemberOf(c.cb.method))
    IN /\ c.op = "test" => \A o \in written : Carries(c.settings, o)
       /\ c.op = "suite" =>
            /\ \A o \in written : Carries(c.settings, o)
            /\ \A k \in 1..Len(c.body) :
                 c.body[k].settings =
                   [e \in {"execution"} |->
                      funcs[c.cb.method][parametersSymbol][k].execution]

\* A child suite registered for a parameterised method decorated with
\* retries(3) has the option in its settings and has declared its test.
C11_Witness ==
  \E i \in Invocations : \E j \in 1..Len(invs[i].calls) :
    LET c == invs[i].calls[j]
    IN /\ c.op = "suite"
       /\ c.invoked
       /\ Len(c.body) = 1
       /\ Carries(c.settings, <<"retries", 3>>)

\* The metadata of what the decorator of a step is applied to, in the
\* method and constructor metadata f and c.
TargetMetadata(step, f, c) ==
  IF step.op = "method"
  THEN LET m == DeclOf(prog, step.cls).members[step.member]
       IN f[<<step.cls, m.static, m.key>>]
  ELSE c[binding[step.cls]].props

\* C12: for each execution modifier X of pending, only, skip, applying
\* X(false) to a method or class leaves its metadata, execution mode
\* included, exactly as it was; applying X(true) or bare X sets the
\* execution mode to X and changes nothing else.
C12_ConditionalModifier ==
  [][(~Loaded /\ Step.deco.d = "modifier" /\ pcDef' = pcDef + 1) =>
       LET step == Script(prog)[pcDef + 1]
           d == step.deco
           before == TargetMetadata(step, funcs, ctors)
           after == TargetMetadata(step, funcs', ctors')
       IN /\ (d.form = "call" /\ d.val = "false") => after = before
          /\ (d.form = "bare" \/ d.val = "true")
               => after = Put(before, executionSymbol, d.exec)]_vars

\* only(false) was just applied to a method tagged skip by test.skip, and
\* the method is still tagged skip.
C12_Witness ==
  /\ pcDef > 0
  /\ LET step == Script(prog)[pcDef]
     IN /\ step.op = "method"
        /\ step.deco = ModifierCall("only", "false")
        /\ LET m == DeclOf(prog, step.cls).members[step.member]
           IN /\ executionSymbol \in DOMAIN funcs[<<step.cls, m.static, m.key>>]
              /\ funcs[<<step.cls, m.static, m.key>>][executionSymbol] = "skip"

\* The "setup instance" callback of invocation i has just created an
\* instance.
JustCreated(i) ==
  /\ i <= Len(invs)
  /\ Len(invs') = Len(invs)
  /\ invs'[i].created = invs[i].created + 1

\* The positions in the calls of registerDI made so far of the systems that
\* handle the class.
HandlingCalls(testClass) == {k \in 1..Len(diCalls) : Handles(diCalls[k], testClass)}

\* The system of the latest registerDI call among those that handle the
\* class, the default system when there is none.
LatestRegistered(testClass) ==
  IF HandlingCalls(testClass) = {} THEN "default"
  ELSE diCalls[CHOOSE k \in HandlingCalls(testClass) :
                 \A j \in HandlingCalls(testClass) : j <= k]

\* The call of registerDI that added its system to the list: the first
\* call made with that system.
FirstCalls(testClass) ==
  {k \in HandlingCalls(testClass) : \A j \in 1..(k - 1) : diCalls[j] # diCalls[k]}

\* The system added latest among those that handle the class, the default
\* system when there is none.
LatestAdded(testClass) ==
  IF FirstCalls(testClass) = {} THEN "default"
  ELSE diCalls[CHOOSE k \in FirstCalls(testClass) :
                 \A j \in FirstCalls(testClass) : j <= k]

\* C13 as stated: after any sequence of registerDI calls, the instance for
\* a test class is created by the system of the most recent registerDI call
\* whose handles(class) returns true, and by the default system when no
\* registered system handles the class.
C13_Original ==
  [][\A i \in 1..MaxInvocations + 1 :
       JustCreated(i) => invs'[i].instance.by = LatestRegistered(invs[i].target)]_vars

\* C13: after any sequence of registerDI calls, the instance for a test
\* class is created by the system that was added to the list latest (a call
\* of registerDI with a system already in the list adds nothing and does
\* not renew its precedence) among those whose handles(class) returns true,
\* and by the default system when no registered system handles the class; a
\* handler is always found.
C13_LatestAddedHandler ==
  [][\A i \in 1..MaxInvocations + 1 :
       JustCreated(i) =>
         /\ invs'[i].instance.kind = "object"
         /\ invs'[i].instance.by = LatestAdded(invs[i].target)]_vars

\* C13 witness: diAll, diA and diAll again were registered, both handle
\* class A, and an instance of A was created by diA.
C13_Witness ==
  /\ diCalls = <<"diAll", "diA", "diAll">>
  /\ \E i \in 1..Len(invs) :
       /\ invs[i].target = "A"
       /\ invs[i].instance.kind = "object"
       /\ invs[i].instance.by = "diA"

\* C14: once the display name of a method is set, no decorator applied
\* later that carries no explicit name (bare test, test with traits only,
\* params and its variants, params.naming, slow, timeout, retries, pending,
\* only, skip) changes it: test("custom") with params above it is still
\* registered as "custom".
C14_NameStable ==
  [][(~Loaded /\ Step.op = "method" /\ pcDef' = pcDef + 1) =>
       LET step == Script(prog)[pcDef + 1]
           before == TargetMetadata(step, funcs, ctors)
           after == TargetMetadata(step, funcs', ctors')
       IN (nameSymbol \in DOMAIN before
             /\ ~(step.deco.d = "test" /\ step.deco.name # Undefined))
            => after[nameSymbol] = before[nameSymbol]]_vars

\* The step applies a decorator that a call of suite or test with a name or
\* traits returned.
FactoryStep(step) ==
  /\ step.op \in {"method", "ctor"}
  /\ step.deco.d \in {"suite", "test"}
  /\ step.deco.form = "call"
  /\ FactoryArguments(step.deco) # <<>>

\* The metadata after the name or the suite mark, then the secondary
\* decorators in argument order, then the factory's own execution mode.
NameTraitsExecution(step, before) ==
  LET d == step.deco
      key == IF step.op = "method" THEN DeclOf(prog, step.cls).members[step.member].key
             ELSE ""
      named == IF d.d = "suite" THEN Put(before, suiteSymbol, TRUE)
               ELSE Put(before, nameSymbol, IF d.name # Undefined THEN d.name ELSE key)
  IN WithExecution(ApplyTraits(named, key, d.traits), d.exec)

\* C15: a factory-form suite or test decorator applies its name first, then
\* each secondary decorator in argument order, then its own execution mode;
\* so with suite.skip(only) and test.skip(only) the final execution mode is
\* the factory's own, skip.
C15_FactoryOrder ==
  [][(~Loaded /\ FactoryStep(Step) /\ pcDef' = pcDef + 1) =>
       LET step == Script(prog)[pcDef + 1]
           before == TargetMetadata(step, funcs, ctors)
           after == TargetMetadata(step, funcs', ctors')
       IN /\ after = NameTraitsExecution(step, before)
          /\ Truthy(step.deco.exec) => after[executionSymbol] = step.deco.exec]_vars

\* C16: for every call shape of suite (bare, suite(), suite(name),
\* suite(trait...), suite(name, trait...)) with traits among slow, timeout,
\* retries and pending, only, skip, runner.suite is called exactly once per
\* decorated class, when the decorator is applied to that class, under the
\* given name or else the class name; calling a factory form with its
\* configuration arguments alone issues no runner.suite call.
C16_OneSuiteCallPerClass ==
  [][(~Loaded /\ pcDef' = pcDef + 1) =>
       LET step == Script(prog)[pcDef + 1]
       IN IF step.op = "ctor" /\ step.deco.d = "suite"
          THEN /\ Len(suites') = Len(suites) + 1
               /\ SubSeq(suites', 1, Len(suites)) = suites
               /\ suites'[Len(suites')].target = binding[step.cls]
               /\ suites'[Len(suites')].name =
                    IF step.deco.name # Undefined THEN step.deco.name ELSE step.cls
          ELSE suites' = suites]_vars

\* C17: applying suite or test in bare form returns the decorated value or
\* nothing, never a new decorator function; only the factory forms (a call
\* with a name or traits) return a new decorator function.
C17_BareReturnsNoDecorator ==
  \A i \in 1..Len(returned) :
    LET step == Script(prog)[returned[i].step]
    IN step.deco.d \in {"suite", "test"} =>
         (returned[i].value = "function" <=> step.op = "call")

\* The value that the call of the step returned.
ReturnedAt(n, log) == (CHOOSE r \in Range(log) : r.step = n).value

\* C18: a call of test (or test.skip/only/pending) is dispatched three ways
\* on its arguments.  With at least 2 arguments whose first is neither a
\* string nor a function it annotates the property directly (the display
\* name is the property key, the execution mode the pre-tagged one) and
\* returns nothing.  With a string first argument it annotates nothing and
\* returns a decorator that names the test with that string.  In every
\* other case it annotates nothing and returns a decorator that names the
\* test with the property key and applies the secondary decorators.
C18_ThreeWayDispatch ==
  [][(~Loaded /\ Step.deco.d = "test" /\ pcDef' = pcDef + 1) =>
       LET step == Script(prog)[pcDef + 1]
           d == step.deco
           m == DeclOf(prog, step.cls).members[step.member]
           before == funcs[<<step.cls, m.static, m.key>>]
           after == funcs'[<<step.cls, m.static, m.key>>]
           called == step.op = "call" \/ d.form = "bare"
           args == IF d.form = "bare" THEN MemberArguments(m.static)
                   ELSE FactoryArguments(d)
           direct == Len(args) >= 2 /\ args[1].type \notin {"string", "function"}
           named == Len(args) >= 1 /\ args[1].type = "string"
       IN /\ (called /\ direct) =>
               /\ after = WithExecution(Put(before, nameSymbol, m.key), d.exec)
               /\ ReturnedAt(pcDef + 1, returned') = Undefined
          /\ (called /\ ~direct) =>
               /\ after = before
               /\ ReturnedAt(pcDef + 1, returned') = "function"
          /\ (~called /\ named) =>
               after = WithExecution(
                         ApplyTraits(Put(before, nameSymbol, d.name), m.key, d.traits),
                         d.exec)
          /\ (~called /\ ~named) =>
               after = WithExecution(
                         ApplyTraits(Put(before, nameSymbol, m.key), m.key, d.traits),
                         d.exec)]_vars

\* C18 witness: a program is loaded in which @test on a static method took
\* the third shape and annotated nothing, and test.skip("custom", only,
\* retries(3)) named the instance method "custom".
C18_Witness ==
  /\ Loaded
  /\ <<"A", TRUE, "s1">> \in DOMAIN funcs
  /\ funcs[<<"A", TRUE, "s1">>] = <<>>
  /\ nameSymbol \in DOMAIN funcs[<<"A", FALSE, "m1">>]
  /\ funcs[<<"A", FALSE, "m1">>][nameSymbol] = "custom"
  /\ executionSymbol \in DOMAIN funcs[<<"A", FALSE, "m1">>]
  /\ funcs[<<"A", FALSE, "m1">>][executionSymbol] = "skip"

\* The closure's instance before the k-th call of the log.
InstanceBefore(log, k) == IF k = 1 THEN UndefinedRef ELSE log[k - 1].instance

\* C19: when the dependency-injection system's create (or the constructor)
\* throws in the "setup instance" step, then for that test neither the test
\* body nor the instance before hook is invoked, the after hook is not
\* invoked on any instance, the failed step leaves the suite's instance
\* reference unchanged, and the setup step of the next test creates a fresh
\* instance.
C19_SetupThrows ==
  \A i \in 1..Len(invs) :
    LET log == invs[i].log
    IN \A k \in 1..Len(log) :
         log[k].kind = "setupThrew" =>
           /\ log[k].instance = InstanceBefore(log, k)
           /\ \A j \in 1..Len(log) :
                log[j].test = log[k].test =>
                  /\ log[j].kind \notin {"test", "before"}
                  /\ log[j].kind = "after" => log[j].this.kind # "object"
           /\ \A j \in (k + 1)..Len(log) :
                (log[j].kind = "setup" /\ log[j].test = log[k].test + 1) =>
                  /\ log[j].instance.kind = "object"
                  /\ \A h \in 1..(j - 1) : log[h].instance # log[j].instance

\* C19 witness: the setup of the first test threw, its after hook was
\* called without an instance, and the setup of the second test created an
\* instance that the second test ran on.
C19_Witness ==
  \E i \in 1..Len(invs) :
    LET log == invs[i].log
    IN /\ Len(log) >= 5
       /\ log[1].kind = "setupThrew"
       /\ \E j \in 2..Len(log) : log[j].kind = "after" /\ log[j].test = 1
       /\ \E j \in 2..Len(log) :
            /\ log[j].kind = "test"
            /\ log[j].test = 2
            /\ log[j].this.kind = "object"

\* C20: each invocation of a suite registration callback owns its instance
\* reference.  Under any interleaving of the setup, hook, test and teardown
\* callbacks of two suites, or of two invocations of one suite's callback,
\* the reference of an invocation is what its own last callback left (no
\* callback of another invocation sets or clears it), a callback called on
\* an instance is called on the one its own setup step created last, and
\* after the teardown step the reference is null until the next setup step.
C20_OwnInstance ==
  \A i \in 1..Len(invs) :
    LET log == invs[i].log
    IN /\ invs[i].instance = InstanceBefore(log, Len(log) + 1)
       /\ \A k \in 1..Len(log) :
            /\ log[k].this.kind = "object" =>
                 /\ log[k].this.inv = i
                 /\ \E j \in 1..(k - 1) :
                      /\ log[j].kind = "setup"
                      /\ log[j].instance = log[k].this
                      /\ \A h \in (j + 1)..(k - 1) : log[h].kind # "setup"
            /\ log[k].kind = "teardown" =>
                 \A j \in k..Len(log) :
                   (\A h \in (k + 1)..j : log[h].kind # "setup") => log[j].instance = NullRef

\* C20 witness: two invocations are running at once; the first has torn
\* its instance down and the second has just run its test on the instance
\* that its own setup created.
C20_Witness ==
  /\ Len(invs) >= 2
  /\ Running(invs[1])
  /\ Running(invs[2])
  /\ invs[1].log # <<>>
  /\ invs[1].log[Len(invs[1].log)].kind = "teardown"
  /\ invs[1].instance = NullRef
  /\ invs[2].log # <<>>
  /\ invs[2].log[Len(invs[2].log)].kind = "test"
  /\ invs[2].instance = Ref("object", 2, 1, "default")

\* The registrations of an invocation that defer to a method of the class:
\* its hooks and tests, and the tests of its child suites.
MethodCalls(inv) ==
  SelectSeq(HooksOf(inv, "beforeAll") \o HooksOf(inv, "beforeEach") \o TestsOf(inv)
              \o HooksOf(inv, "afterEach") \o HooksOf(inv, "afterAll"),
            LAMBDA c : c.cb.method # NoFunc)

\* C21: a test method or lifecycle hook is registered with a callback that
\* takes the completion callback exactly when the method's declared
\* parameter count exceeds the number of parameter values it is invoked
\* with (none for a hook or a test without parameter sets, one for a test
\* of a parameter set), and the callback passes the completion callback
\* when run exactly in that case.
C21_AsyncByArity ==
  \A i \in 1..Len(invs) :
    /\ \A k \in 1..Len(MethodCalls(invs[i])) :
         LET c == MethodCalls(invs[i])[k]
         IN c.cb.async <=> LengthOf(c.cb.method) > Len(c.cb.callArgs)
    /\ \A k \in 1..Len(invs[i].log) :
         LET e == invs[i].log[k]
         IN e.method # NoFunc =>
              ((e.args # <<>> /\ e.args[1] = "done")
                 <=> LengthOf(e.method) >
                       (IF e.kind = "test" /\ parametersSymbol \in DOMAIN funcs[e.method]
                        THEN 1 ELSE 0))

\* C21 witness: a test of a parameter set whose method declares one
\* parameter was registered with a zero-argument callback and run with the
\* value alone, next to a before hook that declares one parameter and was
\* run with the completion callback.
C21_Witness ==
  \E i \in 1..Len(invs) :
    /\ \E k \in 1..Len(invs[i].log) :
         /\ invs[i].log[k].kind = "test"
         /\ invs[i].log[k].args = <<ParamValue(1)>>
         /\ LengthOf(invs[i].log[k].method) = 1
    /\ \E k \in 1..Len(invs[i].log) :
         /\ invs[i].log[k].kind = "before"
         /\ invs[i].log[k].args = <<"done">>

\* The parameter sets of a method, in the order of the array.
ParametersOf(method) ==
  IF parametersSymbol \in DOMAIN funcs[method] THEN funcs[method][parametersSymbol]
  ELSE <<>>

\* C22: every registered test callback, when run, calls the annotated
\* method with this bound to the suite's current instance, passes the
\* runner's completion callback as the first argument exactly when the
\* method is async, passes the value of the parameter set after it as the
\* last argument exactly when the test is parameterised, and returns the
\* method's return value unchanged to the runner.
C22_TestCallback ==
  \A i \in 1..Len(invs) :
    \A k \in 1..Len(invs[i].log) :
      LET e == invs[i].log[k]
          c == TestsOf(invs[i])[e.test]
          done == IF isAsync(e.method) THEN <<"done">> ELSE <<>>
          sets == ParametersOf(e.method)
      IN e.kind = "test" =>
           /\ e.method = c.cb.method
           /\ e.this = InstanceBefore(invs[i].log, k)
           /\ IF sets = <<>> THEN e.args = done
              ELSE \E n \in 1..Len(sets) : e.args = done \o <<sets[n].params>>
           /\ e.returns = ReturnValue(e.method, e.this, e.args)

\* C22 witness: a test of a parameter set whose method declares two
\* parameters ran on the instance of its setup step with the completion
\* callback first and the value last.
C22_Witness ==
  \E i \in 1..Len(invs) :
    \E k \in 1..Len(invs[i].log) :
      /\ invs[i].log[k].kind = "test"
      /\ invs[i].log[k].this.kind = "object"
      /\ invs[i].log[k].args = <<"done", ParamValue(1)>>

\* The child suites declared by an invocation whose callbacks the runner
\* has invoked.
ChildSuites(inv) == SelectSeq(inv.calls, LAMBDA c : c.op = "suite" /\ c.invoked)

\* C23: for each test registered from a parameter set, the execution mode
\* passed to runner.test is the mode of its own params line (params.skip,
\* params.only, params.pending) when it has one; when it has none, no
\* execution mode is passed for that test, and nothing else is passed in
\* either case; the enclosing child suite is registered with the method's
\* own settings (execution mode, slow, timeout, retries).
C23_ParameterSetExecution ==
  \A i \in 1..Len(invs) :
    \A j \in 1..Len(ChildSuites(invs[i])) :
      LET c == ChildSuites(invs[i])[j]
          source == ParamsInSource(c.cb.method)
      IN /\ c.settings = getSettings(funcs[c.cb.method])
         /\ \A k \in 1..Len(c.body) :
              \E n \in 1..Len(source) :
                /\ c.body[k].cb.callArgs = <<source[n].val>>
                /\ c.body[k].settings = ("execution" :> source[n].exec)

\* C23 witness: a child suite holds a test registered with execution mode
\* skip for a params.skip line and a test registered without a mode for a
\* plain params line.
C23_Witness ==
  \E i \in 1..Len(invs) :
    \E j \in 1..Len(ChildSuites(invs[i])) :
      LET c == ChildSuites(invs[i])[j]
      IN /\ \E k \in 1..Len(c.body) : c.body[k].settings = ("execution" :> "skip")
         /\ \E k \in 1..Len(c.body) : c.body[k].settings = ("execution" :> Undefined)

\* The names of the instance members declared at any level of the chain of
\* a class.
DeclaredKeys(target) ==
  {m.key : m \in {x \in UNION {Range(DeclOf(prog, c).members) :
                                   c \in Range(Chain(target)) \cap ClassNames(prog)} :
                     ~x.static}}

\* The registrations of an invocation that are made for the property key:
\* a test, or the child suite of a parameterised method.
RegisteredFor(inv, key) ==
  SelectSeq(inv.calls, LAMBDA c : c.op \in {"test", "suite"} /\ c.cb.method[3] = key)

\* C24: a property name found at any level of the prototype chain is
\* resolved through the most-derived prototype, so a test is registered
\* for a name exactly when the most-derived definition of that property is
\* a function carrying test-name metadata, and it is registered for that
\* definition; when a subclass overrides a test-decorated method of a base
\* class with an undecorated method, no test is registered for the name.
C24_MostDerivedDefinition ==
  \A i \in 1..Len(invs) : invs[i].outcome # "Error" =>
    \A key \in DeclaredKeys(invs[i].target) :
      LET method == PrototypeMethod(invs[i].target, key)
          for == RegisteredFor(invs[i], key)
      IN IF nameSymbol \in DOMAIN funcs[method]
         THEN Len(for) = 1 /\ for[1].cb.method = method
         ELSE for = <<>>

\* C25: when the registration callback of a suite class with a suite
\* ancestor throws the configuration error, the runner.suite call for the
\* class itself and the hook registrations that precede the prototype walk
\* (beforeAll "static before" if present, beforeEach "setup instance",
\* beforeEach "before" if present) have been issued, and no test, afterEach
\* or afterAll registration is issued.
C25_IssuedBeforeError ==
  \A i \in 1..Len(invs) :
    invs[i].outcome = "Error" =>
      /\ invs[i].suite \in 1..Len(suites)
      /\ suites[invs[i].suite].target = invs[i].target
      /\ OpsOf(invs[i].calls) = ExpectedOpening(invs[i].target)
      /\ \A j \in 1..Len(invs[i].calls) :
           invs[i].calls[j].op \notin {"test", "suite", "afterEach", "afterAll"}

\* C25 witness: the callback of a suite class that has a suite ancestor, a
\* test, static and instance before hooks and static and instance after
\* hooks threw the configuration error after three registrations.
C25_Witness ==
  \E i \in 1..Len(invs) :
    /\ invs[i].outcome = "Error"
    /\ Len(invs[i].calls) = 3
    /\ Declares(invs[i].target, FALSE, "after")
    /\ Declares(invs[i].target, TRUE, "after")
    /\ nameSymbol \in DOMAIN funcs[<<invs[i].target, FALSE, "m2">>]

\* The systems in the order of the first registerDI call made with each.
RECURSIVE InOrderOfFirstCall(_)
InOrderOfFirstCall(calls) ==
  IF calls = <<>> THEN <<>>
  ELSE LET before == InOrderOfFirstCall(SubSeq(calls, 1, Len(calls) - 1))
           last == calls[Len(calls)]
       IN IF last \in Range(before) THEN before ELSE Append(before, last)

\* C26: after any sequence of registerDI calls the list of
\* dependency-injection systems contains no object twice and the built-in
\* default system is its last element; a call that registers an object
\* already in the list changes neither the length nor the order of the
\* list, so the list is the systems in the reverse order of their first
\* registration, then the default system.
C26_ListOfSystems ==
  LET systems == dependencyInjectionSystems
  IN /\ \A a, b \in 1..Len(systems) : systems[a] = systems[b] => a = b
     /\ systems[Len(systems)] = "default"
     /\ systems = Reverse(InOrderOfFirstCall(diCalls)) \o <<"default">>

\* C26 witness: diAll, diA and diAll again were registered and the list is
\* diA, diAll, default.
C26_Witness ==
  /\ diCalls = <<"diAll", "diA", "diAll">>
  /\ dependencyInjectionSystems = <<"diA", "diAll", "default">>
  /\ \E i \in 1..Len(invs) : invs[i].instance.kind = "object"

\* C27: calling an execution modifier X of pending, only, skip with no
\* argument at all behaves like calling it with false: the decorator that
\* X() returns, applied to a class or to a method, leaves the metadata of
\* the target, execution mode included, as it was, which is what the
\* decorator that X(false) returns does to the same target.
C27_NoArgumentModifier ==
  [][(~Loaded /\ Step.deco.d = "modifier" /\ Step.deco.form = "call"
        /\ Step.deco.val = Undefined /\ pcDef' = pcDef + 1) =>
       LET step == Script(prog)[pcDef + 1]
           before == TargetMetadata(step, funcs, ctors)
           after == TargetMetadata(step, funcs', ctors')
       IN /\ after = before
          /\ after = createExecutionModifier(
                        before, ModifierCall(step.deco.exec, "false"))
          /\ (executionSymbol \in DOMAIN after)
               = (executionSymbol \in DOMAIN before)]_vars

\* C27 witness: the decorator returned by pending() was just applied to a
\* class tagged skip by the @skip beneath it, and the class is still
\* tagged skip.
C27_Witness ==
  /\ pcDef > 0
  /\ LET step == Script(prog)[pcDef]
     IN /\ step.op = "ctor"
        /\ step.deco = ModifierCall("pending", Undefined)
        /\ LET props == ctors[binding[step.cls]].props
           IN /\ executionSymbol \in DOMAIN props
              /\ props[executionSymbol] = "skip"
====
